---- MODULE Spec2Model ----
(***************************************************************************)
(* A model of the terminal games of cli-game.  This part models the Tetris *)
(* engine of puzzle_game/tetris.py (class Tetris) and the key and gravity  *)
(* handlers of its driver loop (main).                                     *)
(*                                                                         *)
(* A Tetris object is a record g whose fields are the object's fields;     *)
(* every method is an operator from the record (and the method's inputs)   *)
(* to the record after the call, with the returned value in "ret" where    *)
(* the method returns one.  The variables of the module are the fields of  *)
(* the one game object the driver holds, plus history variables (marked    *)
(* so) that record what the calls did.                                     *)
(***************************************************************************)
EXTENDS Integers, Sequences, FiniteSets, TLC

VARIABLES
    board, score, level, lines_cleared, game_over, paused,
    bag, current_piece, current_type, current_rotation,
    current_x, current_y, next_type,
    running,    \* the driver loop has not returned (no Q yet)
    drawn,      \* history: the kinds get_next_piece_type returned since the last refill
    refill_len, \* history: len(bag) found by the most recent refill
    spawned,    \* history: the kinds that became the active piece, in order
    last,       \* history: the last handler run (op), what its core call returned
                \* (ret), and for a rotation the offset it moved the piece by (args)
    keys_todo,  \* input script: the keys the player means to press next
    shuffles_todo, \* input script: the results random.shuffle gives next
    free_steps, \* number of keys pressed off the script (bounds the exploration)
    now,        \* tetris.py main: the clock, time.time(), in milliseconds
    last_drop,  \* tetris.py main: last_drop, in milliseconds
    typing,     \* typing_game.py main: the Game object (a record), or None
    sokoban,    \* sokoban.py: the Game object (a record), or None
    mines,      \* minesweeper.py: the Minesweeper object (a record), or None
    g2048       \* game2048.py: the Game2048 object (a record), or None

fields == <<board, score, level, lines_cleared, game_over, paused,
            bag, current_piece, current_type, current_rotation,
            current_x, current_y, next_type>>
history == <<drawn, refill_len, spawned, last>>
tape == <<keys_todo, shuffles_todo, free_steps>>
elsewhere == <<now, last_drop, typing, sokoban, mines, g2048>>
vars == <<fields, running, history, tape, elsewhere>>

----------------------------------------------------------------------------
(* Constants of tetris.py *)

BOARD_WIDTH == 10
BOARD_HEIGHT == 20

\* Python's None
None == "None"

\* the program run is the Tetris of the handlers taken one at a time, which
\* leave the clock out: no other game object exists and the clock stands
NothingElse ==
    /\ now = 0 /\ last_drop = 0
    /\ typing = None /\ sokoban = None /\ mines = None /\ g2048 = None

\* list(TETROMINOES.keys()): the dict's insertion order
KindList == <<"I", "O", "T", "S", "Z", "J", "L">>
Kinds == {KindList[i] : i \in 1..Len(KindList)}

\* the table with a cell of the last state of L written twice
TETROMINOES_typo ==
    [I |-> << << <<0,1>>, <<1,1>>, <<2,1>>, <<3,1>> >>,
               << <<2,0>>, <<2,1>>, <<2,2>>, <<2,3>> >>,
               << <<0,2>>, <<1,2>>, <<2,2>>, <<3,2>> >>,
               << <<1,0>>, <<1,1>>, <<1,2>>, <<1,3>> >> >>,
     O |-> << << <<1,0>>, <<2,0>>, <<1,1>>, <<2,1>> >>,
               << <<1,0>>, <<2,0>>, <<1,1>>, <<2,1>> >>,
               << <<1,0>>, <<2,0>>, <<1,1>>, <<2,1>> >>,
               << <<1,0>>, <<2,0>>, <<1,1>>, <<2,1>> >> >>,
     T |-> << << <<1,0>>, <<0,1>>, <<1,1>>, <<2,1>> >>,
               << <<1,0>>, <<1,1>>, <<2,1>>, <<1,2>> >>,
               << <<0,1>>, <<1,1>>, <<2,1>>, <<1,2>> >>,
               << <<1,0>>, <<0,1>>, <<1,1>>, <<1,2>> >> >>,
     S |-> << << <<1,0>>, <<2,0>>, <<0,1>>, <<1,1>> >>,
               << <<1,0>>, <<1,1>>, <<2,1>>, <<2,2>> >>,
               << <<1,1>>, <<2,1>>, <<0,2>>, <<1,2>> >>,
               << <<0,0>>, <<0,1>>, <<1,1>>, <<1,2>> >> >>,
     Z |-> << << <<0,0>>, <<1,0>>, <<1,1>>, <<2,1>> >>,
               << <<2,0>>, <<1,1>>, <<2,1>>, <<1,2>> >>,
               << <<0,1>>, <<1,1>>, <<1,2>>, <<2,2>> >>,
               << <<1,0>>, <<0,1>>, <<1,1>>, <<0,2>> >> >>,
     J |-> << << <<0,0>>, <<0,1>>, <<1,1>>, <<2,1>> >>,
               << <<1,0>>, <<2,0>>, <<1,1>>, <<1,2>> >>,
               << <<0,1>>, <<1,1>>, <<2,1>>, <<2,2>> >>,
               << <<1,0>>, <<1,1>>, <<0,2>>, <<1,2>> >> >>,
     L |-> << << <<2,0>>, <<0,1>>, <<1,1>>, <<2,1>> >>,
               << <<1,0>>, <<1,1>>, <<1,2>>, <<2,2>> >>,
               << <<0,1>>, <<1,1>>, <<2,1>>, <<0,2>> >>,
               << <<0,0>>, <<1,0>>, <<1,1>>, <<1,1>> >> >>]

\* TETROMINOES[kind][rotation + 1] is the list of (px, py) cells of that rotation state
TETROMINOES ==
    [I |-> << << <<0,1>>, <<1,1>>, <<2,1>>, <<3,1>> >>,
               << <<2,0>>, <<2,1>>, <<2,2>>, <<2,3>> >>,
               << <<0,2>>, <<1,2>>, <<2,2>>, <<3,2>> >>,
               << <<1,0>>, <<1,1>>, <<1,2>>, <<1,3>> >> >>,
     O |-> << << <<1,0>>, <<2,0>>, <<1,1>>, <<2,1>> >>,
               << <<1,0>>, <<2,0>>, <<1,1>>, <<2,1>> >>,
               << <<1,0>>, <<2,0>>, <<1,1>>, <<2,1>> >>,
               << <<1,0>>, <<2,0>>, <<1,1>>, <<2,1>> >> >>,
     T |-> << << <<1,0>>, <<0,1>>, <<1,1>>, <<2,1>> >>,
               << <<1,0>>, <<1,1>>, <<2,1>>, <<1,2>> >>,
               << <<0,1>>, <<1,1>>, <<2,1>>, <<1,2>> >>,
               << <<1,0>>, <<0,1>>, <<1,1>>, <<1,2>> >> >>,
     S |-> << << <<1,0>>, <<2,0>>, <<0,1>>, <<1,1>> >>,
               << <<1,0>>, <<1,1>>, <<2,1>>, <<2,2>> >>,
               << <<1,1>>, <<2,1>>, <<0,2>>, <<1,2>> >>,
               << <<0,0>>, <<0,1>>, <<1,1>>, <<1,2>> >> >>,
     Z |-> << << <<0,0>>, <<1,0>>, <<1,1>>, <<2,1>> >>,
               << <<2,0>>, <<1,1>>, <<2,1>>, <<1,2>> >>,
               << <<0,1>>, <<1,1>>, <<1,2>>, <<2,2>> >>,
               << <<1,0>>, <<0,1>>, <<1,1>>, <<0,2>> >> >>,
     J |-> << << <<0,0>>, <<0,1>>, <<1,1>>, <<2,1>> >>,
               << <<1,0>>, <<2,0>>, <<1,1>>, <<1,2>> >>,
               << <<0,1>>, <<1,1>>, <<2,1>>, <<2,2>> >>,
               << <<1,0>>, <<1,1>>, <<0,2>>, <<1,2>> >> >>,
     L |-> << << <<2,0>>, <<0,1>>, <<1,1>>, <<2,1>> >>,
               << <<1,0>>, <<1,1>>, <<1,2>>, <<2,2>> >>,
               << <<0,1>>, <<1,1>>, <<2,1>>, <<0,2>> >>,
               << <<0,0>>, <<1,0>>, <<1,1>>, <<1,2>> >> >>]

----------------------------------------------------------------------------
(* Python lists *)

\* lst[i] for a Python list: a negative index counts from the end
PyIndex(lst, i) == lst[(IF i < 0 THEN i + Len(lst) ELSE i) + 1]

\* del lst[i]
PyDel(lst, i) == SubSeq(lst, 1, i) \o SubSeq(lst, i + 2, Len(lst))

\* [None for _ in range(BOARD_WIDTH)]
EmptyRow == [x \in 1..BOARD_WIDTH |-> None]

\* all(cell is not None for cell in row)
RowFull(row) == \A x \in 1..Len(row) : row[x] # None

----------------------------------------------------------------------------
(* class Tetris *)

\* get_next_piece_type refilling a bag that still holds one kind
get_next_piece_type_early(g, perm) ==
    LET refill == Len(g.bag) <= 1
        b == IF refill THEN perm ELSE g.bag
    IN  [g |-> [g EXCEPT !.bag = SubSeq(b, 1, Len(b) - 1),
                         !.drawn = (IF refill THEN <<>> ELSE @) \o <<b[Len(b)]>>,
                         !.refill_len = IF refill THEN Len(g.bag) ELSE @],
         ret |-> b[Len(b)]]

\* get_next_piece_type: perm is what random.shuffle leaves in the refilled bag
get_next_piece_type(g, perm) ==
    LET refill == g.bag = <<>>
        b == IF refill THEN perm ELSE g.bag
    IN  [g |-> [g EXCEPT !.bag = SubSeq(b, 1, Len(b) - 1),
                         !.drawn = (IF refill THEN <<>> ELSE @) \o <<b[Len(b)]>>,
                         !.refill_len = IF refill THEN Len(g.bag) ELSE @],
         ret |-> b[Len(b)]]

\* the loop of is_valid_position from cell i on (1-based), with its early returns
RECURSIVE ValidFrom(_, _, _, _, _)
ValidFrom(brd, x, y, piece, i) ==
    IF i > Len(piece) THEN TRUE
    ELSE LET new_x == x + piece[i][1]
             new_y == y + piece[i][2]
         IN  IF new_x < 0 \/ new_x >= BOARD_WIDTH THEN FALSE
             ELSE IF new_y >= BOARD_HEIGHT THEN FALSE
             ELSE IF new_y >= 0 /\ PyIndex(PyIndex(brd, new_y), new_x) # None THEN FALSE
             ELSE ValidFrom(brd, x, y, piece, i + 1)

\* is_valid_position without "new_y >= 0 and": a row above the board is read
\* as a Python list reads a negative index
RECURSIVE ValidFrom_unguarded(_, _, _, _, _)
ValidFrom_unguarded(brd, x, y, piece, i) ==
    IF i > Len(piece) THEN TRUE
    ELSE LET new_x == x + piece[i][1]
             new_y == y + piece[i][2]
         IN  IF new_x < 0 \/ new_x >= BOARD_WIDTH THEN FALSE
             ELSE IF new_y >= BOARD_HEIGHT THEN FALSE
             ELSE IF PyIndex(PyIndex(brd, new_y), new_x) # None THEN FALSE
             ELSE ValidFrom_unguarded(brd, x, y, piece, i + 1)

is_valid_position_unguarded(g, x, y, piece) ==
    ValidFrom_unguarded(g.board, x, y, piece, 1)

is_valid_position(g, x, y, piece) == ValidFrom(g.board, x, y, piece, 1)

\* spawn_piece drawing the active piece from the bag whatever the preview shows
spawn_piece_past_preview(g, perm) ==
    LET d1 == get_next_piece_type(g, perm)
        d2 == get_next_piece_type(d1.g, perm)
        g2 == [d2.g EXCEPT !.current_type = d1.ret,
                           !.next_type = d2.ret,
                           !.current_rotation = 0,
                           !.current_piece = TETROMINOES[d1.ret][1],
                           !.current_x = (BOARD_WIDTH \div 2) - 2,
                           !.current_y = 0,
                           !.spawned = Append(@, d1.ret)]
    IN  IF ~is_valid_position(g2, g2.current_x, g2.current_y, g2.current_piece)
        THEN [g2 EXCEPT !.game_over = TRUE]
        ELSE g2

\* spawn_piece without the check of the spawn position
spawn_piece_blind(g, perm) ==
    LET d1 == IF g.next_type # None
              THEN [g |-> g, ret |-> g.next_type]
              ELSE get_next_piece_type(g, perm)
        d2 == get_next_piece_type(d1.g, perm)
    IN  [d2.g EXCEPT !.current_type = d1.ret,
                     !.next_type = d2.ret,
                     !.current_rotation = 0,
                     !.current_piece = TETROMINOES[d1.ret][1],
                     !.current_x = (BOARD_WIDTH \div 2) - 2,
                     !.current_y = 0,
                     !.spawned = Append(@, d1.ret)]

spawn_piece(g, perm) ==
    LET d1 == IF g.next_type # None
              THEN [g |-> g, ret |-> g.next_type]
              ELSE get_next_piece_type(g, perm)
        d2 == get_next_piece_type(d1.g, perm)
        g2 == [d2.g EXCEPT !.current_type = d1.ret,
                           !.next_type = d2.ret,
                           !.current_rotation = 0,
                           !.current_piece = TETROMINOES[d1.ret][1],
                           !.current_x = (BOARD_WIDTH \div 2) - 2,
                           !.current_y = 0,
                           !.spawned = Append(@, d1.ret)]
    IN  IF ~is_valid_position(g2, g2.current_x, g2.current_y, g2.current_piece)
        THEN [g2 EXCEPT !.game_over = TRUE]
        ELSE g2

\* Tetris(): __init__
NewTetris(perm) ==
    LET g0 == [board |-> [y \in 1..BOARD_HEIGHT |-> EmptyRow],
               score |-> 0, level |-> 1, lines_cleared |-> 0,
               game_over |-> FALSE, paused |-> FALSE,
               bag |-> <<>>, current_piece |-> None, current_type |-> None,
               current_rotation |-> 0, current_x |-> 0, current_y |-> 0,
               next_type |-> None,
               drawn |-> <<>>, refill_len |-> 0, spawned |-> <<>>]
        g1 == spawn_piece(g0, perm)
        d == get_next_piece_type(g1, perm)
    IN  [d.g EXCEPT !.next_type = d.ret]

\* the board with the cells of the piece at (x, y) set to kind
Stamp(brd, x, y, piece, kind) ==
    [r \in 1..Len(brd) |-> [c \in 1..Len(brd[r]) |->
        IF \E i \in 1..Len(piece) : x + piece[i][1] = c - 1 /\ y + piece[i][2] = r - 1
        THEN kind ELSE brd[r][c]]]

\* move writing the piece into the board when it cannot move
move_stamp(g, dx, dy) ==
    LET new_x == g.current_x + dx
        new_y == g.current_y + dy
    IN  IF is_valid_position(g, new_x, new_y, g.current_piece)
        THEN [g |-> [g EXCEPT !.current_x = new_x, !.current_y = new_y], ret |-> TRUE]
        ELSE [g |-> [g EXCEPT !.board = Stamp(g.board, g.current_x, g.current_y,
                                              g.current_piece, g.current_type)],
              ret |-> FALSE]

\* move taking the new offset also when the position is not valid
move_unchecked(g, dx, dy) ==
    LET new_x == g.current_x + dx
        new_y == g.current_y + dy
    IN  [g |-> [g EXCEPT !.current_x = new_x, !.current_y = new_y],
         ret |-> is_valid_position(g, new_x, new_y, g.current_piece)]

move(g, dx, dy) ==
    LET new_x == g.current_x + dx
        new_y == g.current_y + dy
    IN  IF is_valid_position(g, new_x, new_y, g.current_piece)
        THEN [g |-> [g EXCEPT !.current_x = new_x, !.current_y = new_y], ret |-> TRUE]
        ELSE [g |-> g, ret |-> FALSE]

\* the kicks with the two-column kicks tried before the one-column kicks
kicks_far_first == << <<-2, 0>>, <<2, 0>>, <<-1, 0>>, <<1, 0>>, <<0, -1>> >>

\* kicks = [(-1, 0), (1, 0), (-2, 0), (2, 0), (0, -1)]
kicks == << <<-1, 0>>, <<1, 0>>, <<-2, 0>>, <<2, 0>>, <<0, -1>> >>

\* the wall kick loop keeping the new rotation index when every kick fails
RECURSIVE KickFrom_sticky(_, _, _, _)
KickFrom_sticky(g, new_rotation, new_piece, i) ==
    IF i > Len(kicks)
    THEN [g |-> [g EXCEPT !.current_rotation = new_rotation], ret |-> FALSE]
    ELSE LET kick_x == kicks[i][1]
             kick_y == kicks[i][2]
         IN  IF is_valid_position(g, g.current_x + kick_x, g.current_y + kick_y, new_piece)
             THEN [g |-> [g EXCEPT !.current_x = @ + kick_x,
                                   !.current_y = @ + kick_y,
                                   !.current_rotation = new_rotation,
                                   !.current_piece = new_piece],
                   ret |-> TRUE]
             ELSE KickFrom_sticky(g, new_rotation, new_piece, i + 1)

\* the wall kick loop of rotate from kick i on (1-based)
RECURSIVE KickFrom(_, _, _, _)
KickFrom(g, new_rotation, new_piece, i) ==
    IF i > Len(kicks) THEN [g |-> g, ret |-> FALSE]
    ELSE LET kick_x == kicks[i][1]
             kick_y == kicks[i][2]
         IN  IF is_valid_position(g, g.current_x + kick_x, g.current_y + kick_y, new_piece)
             THEN [g |-> [g EXCEPT !.current_x = @ + kick_x,
                                   !.current_y = @ + kick_y,
                                   !.current_rotation = new_rotation,
                                   !.current_piece = new_piece],
                   ret |-> TRUE]
             ELSE KickFrom(g, new_rotation, new_piece, i + 1)

\* rotate taking the new rotation where the piece stands, fitting or not
rotate_in_place(g) ==
    LET new_rotation == (g.current_rotation + 1) % 4
    IN  [g |-> [g EXCEPT !.current_rotation = new_rotation,
                         !.current_piece = TETROMINOES[g.current_type][new_rotation + 1]],
         ret |-> TRUE]

\* rotate with three rotation states
rotate_mod3(g) ==
    LET new_rotation == (g.current_rotation + 1) % 3
        new_piece == TETROMINOES[g.current_type][new_rotation + 1]
    IN  IF is_valid_position(g, g.current_x, g.current_y, new_piece)
        THEN [g |-> [g EXCEPT !.current_rotation = new_rotation,
                              !.current_piece = new_piece],
              ret |-> TRUE]
        ELSE KickFrom(g, new_rotation, new_piece, 1)

rotate(g) ==
    LET new_rotation == (g.current_rotation + 1) % 4
        new_piece == TETROMINOES[g.current_type][new_rotation + 1]
    IN  IF is_valid_position(g, g.current_x, g.current_y, new_piece)
        THEN [g |-> [g EXCEPT !.current_rotation = new_rotation,
                              !.current_piece = new_piece],
              ret |-> TRUE]
        ELSE KickFrom(g, new_rotation, new_piece, 1)

\* lines_to_clear of clear_lines: the full rows, top to bottom (0-based)
RECURSIVE LinesToClear(_, _)
LinesToClear(brd, y) ==
    IF y >= BOARD_HEIGHT THEN <<>>
    ELSE (IF RowFull(PyIndex(brd, y)) THEN <<y>> ELSE <<>>) \o LinesToClear(brd, y + 1)

\* the rows deleted first and the empty rows inserted afterwards: after the
\* first deletion the later indices are one row off
RECURSIVE DeleteLines(_, _, _)
DeleteLines(brd, lines, i) ==
    IF i > Len(lines) THEN brd
    ELSE DeleteLines(PyDel(brd, lines[i]), lines, i + 1)

RemoveLines_late_insert(brd, lines, i) ==
    [k \in 1..Len(lines) |-> EmptyRow] \o DeleteLines(brd, lines, i)

\* for y in lines_to_clear: del self.board[y]; self.board.insert(0, [None, ...])
RECURSIVE RemoveLines(_, _, _)
RemoveLines(brd, lines, i) ==
    IF i > Len(lines) THEN brd
    ELSE RemoveLines(<<EmptyRow>> \o PyDel(brd, lines[i]), lines, i + 1)

\* points.get(num_lines, 800)
points(num_lines) ==
    CASE num_lines = 1 -> 100
      [] num_lines = 2 -> 300
      [] num_lines = 3 -> 500
      [] num_lines = 4 -> 800
      [] OTHER -> 800

\* clear_lines adding the number of lines to lines_cleared twice
clear_lines_twice(g) ==
    LET lines_to_clear == LinesToClear(g.board, 0)
        num_lines == Len(lines_to_clear)
        g1 == [g EXCEPT !.board = RemoveLines(g.board, lines_to_clear, 1)]
    IN  IF num_lines > 0
        THEN [g1 EXCEPT !.lines_cleared = @ + num_lines + num_lines,
                        !.score = @ + points(num_lines) * g.level,
                        !.level = ((g.lines_cleared + num_lines) \div 10) + 1]
        ELSE g1

\* clear_lines paying the lines at the level they lead to
clear_lines_new_level(g) ==
    LET lines_to_clear == LinesToClear(g.board, 0)
        num_lines == Len(lines_to_clear)
        g1 == [g EXCEPT !.board = RemoveLines(g.board, lines_to_clear, 1)]
        new_level == ((g.lines_cleared + num_lines) \div 10) + 1
    IN  IF num_lines > 0
        THEN [g1 EXCEPT !.lines_cleared = @ + num_lines,
                        !.score = @ + points(num_lines) * new_level,
                        !.level = new_level]
        ELSE g1

\* clear_lines computing the level from lines_cleared as it was before
clear_lines_stale_level(g) ==
    LET lines_to_clear == LinesToClear(g.board, 0)
        num_lines == Len(lines_to_clear)
        g1 == [g EXCEPT !.board = RemoveLines(g.board, lines_to_clear, 1)]
    IN  IF num_lines > 0
        THEN [g1 EXCEPT !.lines_cleared = @ + num_lines,
                        !.score = @ + points(num_lines) * g.level,
                        !.level = (g.lines_cleared \div 10) + 1]
        ELSE g1

clear_lines(g) ==
    LET lines_to_clear == LinesToClear(g.board, 0)
        num_lines == Len(lines_to_clear)
        g1 == [g EXCEPT !.board = RemoveLines(g.board, lines_to_clear, 1)]
    IN  IF num_lines > 0
        THEN [g1 EXCEPT !.lines_cleared = @ + num_lines,
                        !.score = @ + points(num_lines) * g.level,
                        !.level = ((g.lines_cleared + num_lines) \div 10) + 1]
        ELSE g1

\* the loop of lock_piece from cell i on: the board with the piece's cells written
RECURSIVE WriteCells(_, _, _)
WriteCells(g, brd, i) ==
    IF i > Len(g.current_piece) THEN brd
    ELSE LET x == g.current_x + g.current_piece[i][1]
             y == g.current_y + g.current_piece[i][2]
         IN  WriteCells(g,
                        IF 0 <= y /\ y < BOARD_HEIGHT /\ 0 <= x /\ x < BOARD_WIDTH
                        THEN [brd EXCEPT ![y + 1][x + 1] = g.current_type]
                        ELSE brd,
                        i + 1)

\* lock_piece without its call of clear_lines
lock_piece_keeps_lines(g, perm) ==
    spawn_piece([g EXCEPT !.board = WriteCells(g, g.board, 1)], perm)

\* lock_piece(): the cells are written, then clear_lines() and spawn_piece()
\* are called, each on the object the call before it has left
lock_piece(g, perm) ==
    CHOOSE spawned_on \in
        {spawn_piece(cleared, perm) :
            cleared \in {clear_lines(written) :
                written \in {[g EXCEPT !.board = WriteCells(g, g.board, 1)]}}} : TRUE

\* the loop of hard_drop stopping one row above the last valid row
RECURSIVE DropLoop_short(_, _)
DropLoop_short(g, drop_distance) ==
    LET m == move(g, 0, 1)
    IN  IF m.ret /\ move(m.g, 0, 1).ret THEN DropLoop_short(m.g, drop_distance + 1)
        ELSE [g |-> g, ret |-> drop_distance]

\* the loop of hard_drop: [g after the moves, ret = drop_distance]
RECURSIVE DropLoop(_, _)
DropLoop(g, drop_distance) ==
    LET m == move(g, 0, 1)
    IN  IF m.ret THEN DropLoop(m.g, drop_distance + 1)
        ELSE [g |-> m.g, ret |-> drop_distance]

\* hard_drop paying one point per cell
hard_drop_cheap(g, perm) ==
    LET d == DropLoop(g, 0)
    IN  lock_piece([d.g EXCEPT !.score = @ + d.ret], perm)

hard_drop(g, perm) ==
    LET d == DropLoop(g, 0)
    IN  lock_piece([d.g EXCEPT !.score = @ + d.ret * 2], perm)

\* speeds of get_drop_speed, for the levels 1..10, in milliseconds (the code
\* has them in seconds: 1.0, 0.8, 0.65, 0.5, 0.4, 0.3, 0.25, 0.2, 0.15, 0.1)
speeds == <<1000, 800, 650, 500, 400, 300, 250, 200, 150, 100>>

\* min(a, b) of Python
min(a, b) == IF a <= b THEN a ELSE b

\* get_drop_speed looking up self.level, with 1.0 for a level not in the table
get_drop_speed_slow(g) ==
    IF g.level \in 1..Len(speeds) THEN speeds[g.level] ELSE 1000

\* speeds.get(min(self.level, 10), 0.1), in milliseconds
get_drop_speed(g) ==
    LET key == min(g.level, 10)
    IN  IF key \in 1..Len(speeds) THEN speeds[key] ELSE 100

\* the loop of get_ghost_y
RECURSIVE GhostFrom(_, _)
GhostFrom(g, ghost_y) ==
    IF is_valid_position(g, g.current_x, ghost_y + 1, g.current_piece)
    THEN GhostFrom(g, ghost_y + 1)
    ELSE ghost_y

\* get_ghost_y returning the first row that is not valid
get_ghost_y_below(g) == GhostFrom(g, g.current_y) + 1

\* get_ghost_y reads the object and returns a row; it assigns no field
get_ghost_y(g) == GhostFrom(g, g.current_y)

----------------------------------------------------------------------------
(* The game object the driver holds *)

\* the object (with the history of its calls) as a record
Self ==
    [board |-> board, score |-> score, level |-> level,
     lines_cleared |-> lines_cleared, game_over |-> game_over, paused |-> paused,
     bag |-> bag, current_piece |-> current_piece, current_type |-> current_type,
     current_rotation |-> current_rotation, current_x |-> current_x,
     current_y |-> current_y, next_type |-> next_type,
     drawn |-> drawn, refill_len |-> refill_len, spawned |-> spawned]

\* game = g
Store(g) ==
    /\ board' = g.board /\ score' = g.score /\ level' = g.level
    /\ lines_cleared' = g.lines_cleared /\ game_over' = g.game_over
    /\ paused' = g.paused /\ bag' = g.bag /\ current_piece' = g.current_piece
    /\ current_type' = g.current_type /\ current_rotation' = g.current_rotation
    /\ current_x' = g.current_x /\ current_y' = g.current_y
    /\ next_type' = g.next_type
    /\ drawn' = g.drawn /\ refill_len' = g.refill_len /\ spawned' = g.spawned

\* the game object is g (in the initial state)
Holds(g) ==
    /\ board = g.board /\ score = g.score /\ level = g.level
    /\ lines_cleared = g.lines_cleared /\ game_over = g.game_over
    /\ paused = g.paused /\ bag = g.bag /\ current_piece = g.current_piece
    /\ current_type = g.current_type /\ current_rotation = g.current_rotation
    /\ current_x = g.current_x /\ current_y = g.current_y
    /\ next_type = g.next_type
    /\ drawn = g.drawn /\ refill_len = g.refill_len /\ spawned = g.spawned

----------------------------------------------------------------------------
(* The inputs of a run: the keys pressed and the results of random.shuffle.  *)
(* A run starts on a script (a sequence of keys, and the shuffles it needs); *)
(* the player may leave the script at any point and then presses at most     *)
(* MaxSteps keys of their own choice.                                        *)

\* bound: the number of keys pressed off the script
MaxSteps == 2

\* every result random.shuffle can leave in the bag
AllOrders ==
    {<<KindList[p[1]], KindList[p[2]], KindList[p[3]], KindList[p[4]],
       KindList[p[5]], KindList[p[6]], KindList[p[7]]>> : p \in Permutations(1..7)}

\* the bag after a shuffle that makes kind the first one drawn (the bag is
\* popped from its end) and leaves the others in the order of KindList
First(kind) ==
    LET i == CHOOSE j \in 1..7 : KindList[j] = kind
    IN  [j \in 1..7 |-> KindList[((i + j - 1) % 7) + 1]]

\* the shuffles explored once the script's shuffles are used up
PlayOrders == {First(k) : k \in Kinds}

\* key k is pressed: the script's next key, or a key off the script
Pressed(k) ==
    IF keys_todo # <<>> /\ Head(keys_todo) = k
    THEN keys_todo' = Tail(keys_todo) /\ free_steps' = free_steps
    ELSE free_steps < MaxSteps /\ keys_todo' = <<>> /\ free_steps' = free_steps + 1

\* what random.shuffle may leave in the bag in this step (used: the step
\* shuffles; a step that does not is given the unshuffled list)
Shuffles(orders, used) ==
    IF ~used THEN {KindList}
    ELSE IF shuffles_todo # <<>> THEN {Head(shuffles_todo)} ELSE orders

\* the step has shuffled (used) or not: the script of shuffles after it
Shuffled(used) ==
    shuffles_todo' = IF used /\ shuffles_todo # <<>>
                     THEN Tail(shuffles_todo) ELSE shuffles_todo

----------------------------------------------------------------------------
(* main: the handlers of one frame of the driver loop *)

\* game = Tetris() at the start of main, for the script sc
Start(sc, orders) ==
    /\ keys_todo = sc.keys
    /\ free_steps = 0
    /\ running = TRUE
    /\ last = [op |-> "new", args |-> <<>>, ret |-> TRUE]
    /\ \E perm \in (IF sc.shuffles # <<>> THEN {Head(sc.shuffles)} ELSE orders) :
          /\ shuffles_todo = (IF sc.shuffles # <<>> THEN Tail(sc.shuffles) ELSE <<>>)
          /\ Holds(NewTetris(perm))
    /\ NothingElse

\* the keys of the game handled on the game over screen too
InPlay_always == running

\* the frame handles the keys of the game: not on the game over screen
InPlay == running /\ ~game_over

\* KEY_LEFT / a / A
KeyLeft ==
    /\ InPlay /\ ~paused /\ Pressed("left")
    /\ LET m == move(Self, -1, 0)
       IN  Store(m.g) /\ last' = [op |-> "left", args |-> <<>>, ret |-> m.ret]
    /\ UNCHANGED <<running, shuffles_todo>>
    /\ UNCHANGED elsewhere

\* KEY_RIGHT / d / D
KeyRight ==
    /\ InPlay /\ ~paused /\ Pressed("right")
    /\ LET m == move(Self, 1, 0)
       IN  Store(m.g) /\ last' = [op |-> "right", args |-> <<>>, ret |-> m.ret]
    /\ UNCHANGED <<running, shuffles_todo>>
    /\ UNCHANGED elsewhere

\* the soft drop paying its point whether the piece moved or not
KeyDown_paid ==
    /\ running /\ ~game_over /\ ~paused /\ Pressed("down")
    /\ LET m == move(Self, 0, 1)
       IN  /\ Store([m.g EXCEPT !.score = @ + 1])
           /\ last' = [op |-> "down", args |-> <<>>, ret |-> m.ret]
    /\ UNCHANGED <<running, shuffles_todo>>
    /\ UNCHANGED elsewhere

\* KEY_DOWN / s / S: soft drop
KeyDown ==
    /\ InPlay /\ ~paused /\ Pressed("down")
    /\ LET m == move(Self, 0, 1)
       IN  /\ Store(IF m.ret THEN [m.g EXCEPT !.score = @ + 1] ELSE m.g)
           /\ last' = [op |-> "down", args |-> <<>>, ret |-> m.ret]
    /\ UNCHANGED <<running, shuffles_todo>>
    /\ UNCHANGED elsewhere

\* KEY_UP / w / W
KeyUp ==
    /\ InPlay /\ ~paused /\ Pressed("up")
    /\ LET m == rotate(Self)
       IN  /\ Store(m.g)
           /\ last' = [op |-> "up",
                       args |-> <<m.g.current_x - current_x, m.g.current_y - current_y>>,
                       ret |-> m.ret]
    /\ UNCHANGED <<running, shuffles_todo>>
    /\ UNCHANGED elsewhere

\* space: hard drop
KeySpace(orders) ==
    /\ InPlay /\ ~paused /\ Pressed("space")
    /\ Shuffled(bag = <<>>)
    /\ \E perm \in Shuffles(orders, bag = <<>>) : Store(hard_drop(Self, perm))
    /\ last' = [op |-> "space", args |-> <<>>, ret |-> TRUE]
    /\ UNCHANGED running
    /\ UNCHANGED elsewhere

\* the auto drop of a frame that does not look at game.paused
AutoDrop_paused(orders) ==
    /\ running /\ ~game_over /\ Pressed("auto")
    /\ LET m == move(Self, 0, 1)
       IN  /\ Shuffled(~m.ret /\ bag = <<>>)
           /\ \E perm \in Shuffles(orders, ~m.ret /\ bag = <<>>) :
                 Store(IF m.ret THEN m.g ELSE lock_piece(m.g, perm))
           /\ last' = [op |-> "auto", args |-> <<>>, ret |-> m.ret]
    /\ UNCHANGED running
    /\ UNCHANGED elsewhere

\* the auto drop at the end of a frame, when the drop interval has elapsed
\* (the script names it as the key "auto")
AutoDrop(orders) ==
    /\ running /\ ~paused /\ ~game_over /\ Pressed("auto")
    /\ LET m == move(Self, 0, 1)
       IN  /\ Shuffled(~m.ret /\ bag = <<>>)
           /\ \E perm \in Shuffles(orders, ~m.ret /\ bag = <<>>) :
                 Store(IF m.ret THEN m.g ELSE lock_piece(m.g, perm))
           /\ last' = [op |-> "auto", args |-> <<>>, ret |-> m.ret]
    /\ UNCHANGED running
    /\ UNCHANGED elsewhere

\* the keys the frame of a game in play passes to the core
PlayKeys == {"left", "right", "down", "up", "space"}

\* p / P: game.paused = not game.paused
KeyP ==
    /\ InPlay /\ Pressed("p")
    /\ Store([Self EXCEPT !.paused = ~paused])
    /\ last' = [op |-> "p", args |-> <<>>, ret |-> TRUE]
    /\ UNCHANGED <<running, shuffles_todo>>
    /\ UNCHANGED elsewhere

\* q / Q: the loop is left, in play (break) or on the game over screen (return)
KeyQ ==
    /\ running /\ Pressed("q")
    /\ running' = FALSE
    /\ last' = [op |-> "q", args |-> <<>>, ret |-> TRUE]
    /\ UNCHANGED <<fields, drawn, refill_len, spawned, shuffles_todo>>
    /\ UNCHANGED elsewhere

\* r / R on the game over screen: game = Tetris()
KeyR(orders) ==
    /\ running /\ game_over /\ Pressed("r")
    /\ Shuffled(TRUE)
    /\ \E perm \in Shuffles(orders, TRUE) : Store(NewTetris(perm))
    /\ last' = [op |-> "r", args |-> <<>>, ret |-> TRUE]
    /\ UNCHANGED running
    /\ UNCHANGED elsewhere

\* a key the frame reads and does not act on: a key of play while the game is
\* paused, a key other than q and r on the game over screen, r in play
KeyIgnored ==
    /\ running
    /\ \E k \in PlayKeys \cup {"p", "r"} :
          /\ \/ ~game_over /\ paused /\ k \in PlayKeys
             \/ game_over /\ k # "r"
             \/ ~game_over /\ k = "r"
          /\ Pressed(k)
          /\ last' = [op |-> "ignored", args |-> <<k>>, ret |-> FALSE]
    /\ UNCHANGED <<fields, running, drawn, refill_len, spawned, shuffles_todo>>
    /\ UNCHANGED elsewhere

\* draw_board at the top of a frame: ghost_y = game.get_ghost_y()
DrawBoard ==
    /\ running /\ last.op # "get_ghost_y"
    /\ last' = [op |-> "get_ghost_y", args |-> <<>>, ret |-> get_ghost_y(Self)]
    /\ UNCHANGED <<fields, running, drawn, refill_len, spawned, tape>>
    /\ UNCHANGED elsewhere

\* the handlers of a game in play
Play(orders) ==
    \/ KeyLeft
    \/ KeyRight
    \/ KeyDown
    \/ KeyUp
    \/ KeySpace(orders)
    \/ AutoDrop(orders)

----------------------------------------------------------------------------
(* Scripts: games played on the program itself, key by key *)

\* a run with no script
NoScript == [keys |-> <<>>, shuffles |-> <<>>]

\* ScriptTour<K>: the first piece is K; it is taken to both walls and to the
\* floor and rotated there, then dropped
ScriptTourI ==
    [keys |->
        <<"left", "right", "up", "auto", "down", "left", "left", "left",
          "left", "up", "left", "up", "up", "up", "left", "left", "up",
          "right", "right", "right", "right", "right", "right", "right",
          "up", "right", "up", "up", "up", "up", "right", "right", "up",
          "up", "auto", "auto", "auto", "auto", "auto", "auto", "auto",
          "auto", "auto", "auto", "auto", "auto", "auto", "auto", "down",
          "up", "auto", "up", "up", "auto", "auto", "up", "space">>,
     shuffles |-> << <<"O", "T", "S", "Z", "J", "L", "I">> >>]

ScriptTourO ==
    [keys |->
        <<"left", "right", "up", "auto", "down", "left", "left", "left",
          "left", "left", "right", "right", "right", "right", "right",
          "right", "right", "right", "right", "auto", "auto", "auto", "auto",
          "auto", "auto", "auto", "auto", "auto", "auto", "auto", "auto",
          "auto", "auto", "auto", "auto", "down", "space">>,
     shuffles |-> << <<"T", "S", "Z", "J", "L", "I", "O">> >>]

ScriptTourT ==
    [keys |->
        <<"left", "right", "up", "auto", "down", "left", "left", "left",
          "left", "left", "up", "right", "right", "right", "right", "right",
          "right", "right", "right", "up", "right", "up", "up", "auto",
          "auto", "auto", "auto", "auto", "auto", "auto", "auto", "auto",
          "auto", "auto", "auto", "auto", "auto", "auto", "down", "up", "up",
          "up", "auto", "up", "space">>,
     shuffles |-> << <<"S", "Z", "J", "L", "I", "O", "T">> >>]

ScriptTourS ==
    [keys |->
        <<"left", "right", "up", "auto", "down", "left", "left", "left",
          "left", "left", "up", "right", "right", "right", "right", "right",
          "right", "right", "right", "up", "right", "up", "up", "auto",
          "auto", "auto", "auto", "auto", "auto", "auto", "auto", "auto",
          "auto", "auto", "auto", "auto", "auto", "auto", "down", "up", "up",
          "up", "auto", "up", "space">>,
     shuffles |-> << <<"Z", "J", "L", "I", "O", "T", "S">> >>]

ScriptTourZ ==
    [keys |->
        <<"left", "right", "up", "auto", "down", "left", "left", "left",
          "left", "left", "up", "right", "right", "right", "right", "right",
          "right", "right", "right", "up", "right", "up", "up", "auto",
          "auto", "auto", "auto", "auto", "auto", "auto", "auto", "auto",
          "auto", "auto", "auto", "auto", "auto", "auto", "down", "up", "up",
          "up", "auto", "up", "space">>,
     shuffles |-> << <<"J", "L", "I", "O", "T", "S", "Z">> >>]

ScriptTourJ ==
    [keys |->
        <<"left", "right", "up", "auto", "down", "left", "left", "left",
          "left", "left", "up", "right", "right", "right", "right", "right",
          "right", "right", "right", "up", "right", "up", "up", "auto",
          "auto", "auto", "auto", "auto", "auto", "auto", "auto", "auto",
          "auto", "auto", "auto", "auto", "auto", "auto", "down", "up", "up",
          "up", "auto", "up", "space">>,
     shuffles |-> << <<"L", "I", "O", "T", "S", "Z", "J">> >>]

ScriptTourL ==
    [keys |->
        <<"left", "right", "up", "auto", "down", "left", "left", "left",
          "left", "left", "up", "right", "right", "right", "right", "right",
          "right", "right", "right", "up", "right", "up", "up", "auto",
          "auto", "auto", "auto", "auto", "auto", "auto", "auto", "auto",
          "auto", "auto", "auto", "auto", "auto", "auto", "down", "up", "up",
          "up", "auto", "up", "space">>,
     shuffles |-> << <<"I", "O", "T", "S", "Z", "J", "L">> >>]

\* a stack built up to the top rows, and a piece rotated on top of it
ScriptTop ==
    [keys |->
        <<"up", "up", "up", "space", "up", "up", "right", "space", "up",
          "up", "up", "right", "space", "up", "space", "up", "up", "left",
          "space", "up", "left", "left", "left", "space", "left", "space",
          "up", "up", "space", "up", "up", "right", "right", "space", "up",
          "auto">>,
     shuffles |-> << <<"I", "Z", "O", "J", "S", "T", "L">>, <<"O", "S", "L", "Z", "J", "I", "T">> >>]

\* I, J and L dropped side by side: the third hard drop completes the bottom row
ScriptClearOne ==
    [keys |->
        <<"left", "left", "left", "space", "right", "space", "right",
          "right", "right", "right", "space">>,
     shuffles |-> << <<"O", "T", "S", "L", "J", "Z", "I">> >>]

\* ScriptLevelTwo: 30 pieces, all hard dropped: the locks clear 4, 2, 2 and 2
\* lines, which makes 10 and level 2, and then 1 line at level 2 (score 2848)
ScriptLevelTwo ==
    [keys |->
        <<"left", "left", "left", "left", "space", "left", "space", "right",
          "right", "right", "space", "up", "up", "left", "left", "left",
          "space", "space", "space", "left", "left", "space", "left", "left",
          "space", "up", "left", "left", "left", "left", "space", "up",
          "right", "right", "space", "up", "right", "right", "right",
          "space", "up", "up", "right", "right", "space", "left", "left",
          "left", "left", "space", "right", "right", "right", "space", "up",
          "right", "right", "right", "right", "space", "up", "up", "up",
          "space", "up", "right", "space", "up", "left", "left", "space",
          "up", "up", "up", "right", "space", "left", "space", "up", "up",
          "right", "right", "right", "right", "space", "up", "right",
          "right", "right", "right", "space", "up", "up", "up", "right",
          "right", "right", "right", "right", "space", "right", "right",
          "space", "up", "left", "left", "left", "space", "up", "left",
          "left", "left", "left", "left", "space", "up", "up", "up", "left",
          "left", "left", "space", "space", "up", "left", "left", "left",
          "left", "left", "space", "right", "right", "right", "space">>,
     shuffles |-> << <<"S", "L", "J", "T", "I", "Z", "O">>,
                   <<"O", "T", "I", "Z", "J", "S", "L">>,
                   <<"O", "J", "T", "Z", "L", "I", "S">>,
                   <<"L", "I", "Z", "O", "T", "S", "J">>,
                   <<"O", "S", "L", "Z", "J", "I", "T">> >>]

\* ScriptTop, then keys on the game over screen, a restart, a pause with keys
\* pressed during it, a hard drop and Q
ScriptOver ==
    [keys |-> ScriptTop.keys \o
              <<"left", "p", "r", "p", "left", "up", "down", "space", "p",
                "space", "q">>,
     shuffles |-> ScriptTop.shuffles \o <<First("T")>>]

\* the first piece is kind; it is rotated four times where it spawned
ScriptSpin(kind) ==
    [keys |-> <<"up", "up", "up", "up">>, shuffles |-> <<First(kind)>>]

PlayScripts ==
    {ScriptSpin(k) : k \in Kinds} \cup
    {NoScript, ScriptTourI, ScriptTourO, ScriptTourT, ScriptTourS, ScriptTourZ,
     ScriptTourJ, ScriptTourL, ScriptClearOne, ScriptTop, ScriptLevelTwo}

----------------------------------------------------------------------------
(* Spec: games in play, on and around the scripts *)

Init == \E sc \in PlayScripts : Start(sc, PlayOrders)

Next == Play(PlayOrders)

Spec == Init /\ [][Next]_vars

----------------------------------------------------------------------------
(* SpecDriver: every handler of the loop of main, with pause, quit, the game *)
(* over screen and restart                                                   *)

DriverScripts == {NoScript, ScriptTourT, ScriptClearOne, ScriptOver}

InitDriver == \E sc \in DriverScripts : Start(sc, PlayOrders)

NextDriver ==
    \/ Play(PlayOrders)
    \/ KeyP
    \/ KeyQ
    \/ KeyR(PlayOrders)
    \/ KeyIgnored
    \/ DrawBoard

SpecDriver == InitDriver /\ [][NextDriver]_vars

----------------------------------------------------------------------------
(* SpecBag: a player who only hard-drops, for every first shuffle *)

\* bound: the hard drops of the script of SpecBag
BagDrops == 6

ScriptDrops == [keys |-> [i \in 1..BagDrops |-> "space"], shuffles |-> <<>>]

\* the later shuffles explored in SpecBag
BagOrders == {First("I"), First("S")}

InitBag == Start(ScriptDrops, AllOrders)

NextBag == KeySpace(BagOrders)

SpecBag == InitBag /\ [][NextBag]_vars

----------------------------------------------------------------------------
(* SpecValid: is_valid_position applied to the boards the scripts end with *)

\* bound: how far outside the board the probed offsets go
ProbeMargin == 3

\* game.is_valid_position(x, y, TETROMINOES[kind][rot]) at the end of a script
Probe ==
    /\ keys_todo = <<>> /\ free_steps = 0 /\ last.op # "is_valid_position"
    /\ \E x \in (0 - ProbeMargin)..(BOARD_WIDTH + ProbeMargin - 1),
          y \in (0 - ProbeMargin)..(BOARD_HEIGHT + ProbeMargin - 1),
          kind \in Kinds, rot \in 0..3 :
          last' = [op |-> "is_valid_position",
                   args |-> <<x, y, kind, rot>>,
                   ret |-> is_valid_position(Self, x, y, TETROMINOES[kind][rot + 1])]
    /\ UNCHANGED <<fields, running, drawn, refill_len, spawned, tape>>
    /\ UNCHANGED elsewhere

InitValid == \E sc \in {ScriptClearOne, ScriptTop} : Start(sc, PlayOrders)

NextValid == Play(PlayOrders) \/ Probe

SpecValid == InitValid /\ [][NextValid]_vars

----------------------------------------------------------------------------
(* clear_lines() on its own, on boards drawn from a family of stacks: the    *)
(* rows of a set F within ClearSpan neighbouring rows are full (the cells of *)
(* one piece span at most 4 rows), every other row from row top down has a   *)
(* pattern of its own, which is never full.                                  *)

ClearSpan == 4

\* bit x of the number n
Bit(n, x) == (n \div (2 ^ x)) % 2 = 1

\* self.board with the rows of F full (rows 0-based)
StackBoard(top, F) ==
    [r \in 1..BOARD_HEIGHT |-> [c \in 1..BOARD_WIDTH |->
        IF (r - 1) \in F \/ ((r - 1) >= top /\ c <= 5 /\ Bit(r, c - 1))
        THEN KindList[((r + c) % 7) + 1]
        ELSE None]]

InitClear ==
    /\ running = TRUE
    /\ keys_todo = <<>> /\ shuffles_todo = <<>> /\ free_steps = 0
    /\ last = [op |-> "input", args |-> <<>>, ret |-> TRUE]
    /\ \E base \in 0..(BOARD_HEIGHT - ClearSpan), top \in {0, BOARD_HEIGHT \div 2} :
          \E F \in SUBSET (base..(base + ClearSpan - 1)) :
              Holds([NewTetris(KindList) EXCEPT !.board = StackBoard(top, F)])
    /\ NothingElse

\* game.clear_lines()
ClearLines ==
    /\ last.op = "input"
    /\ Store(clear_lines(Self))
    /\ last' = [op |-> "clear_lines", args |-> LinesToClear(board, 0), ret |-> TRUE]
    /\ UNCHANGED <<running, tape>>
    /\ UNCHANGED elsewhere

NextClear == ClearLines

SpecClear == InitClear /\ [][NextClear]_vars

----------------------------------------------------------------------------
(* Locks at every level: the active piece is an upright I resting on the     *)
(* floor in column 9; the rows of a set F among the four rows it reaches are *)
(* full but for column 9, so that the gravity step that locks it clears      *)
(* them.  lines_cleared is drawn from 0..MaxLines, and level and score are   *)
(* what a game that cleared its lines one at a time, without a soft or hard  *)
(* drop, has by then.                                                        *)

MaxLines == 119

\* the score after n locks that cleared one line each: 100 * level for each,
\* ten lines at each of the levels 1..q and r lines at level q + 1
SinglesScore(n) ==
    LET q == n \div 10
        r == n % 10
    IN  500 * q * (q + 1) + 100 * r * (q + 1)

\* self.board with the rows of F full but for the last column
WellBoard(F) ==
    [r \in 1..BOARD_HEIGHT |-> [c \in 1..BOARD_WIDTH |->
        IF \/ (r - 1) \in F /\ c < BOARD_WIDTH
           \/ (r - 1) >= BOARD_HEIGHT \div 2 /\ c <= 5 /\ Bit(r, c - 1)
        THEN KindList[((r + c) % 7) + 1]
        ELSE None]]

InitLevel ==
    /\ running = TRUE
    /\ keys_todo = <<"auto">> /\ shuffles_todo = <<>> /\ free_steps = 0
    /\ last = [op |-> "input", args |-> <<>>, ret |-> TRUE]
    /\ \E n \in 0..MaxLines :
          \E F \in SUBSET ((BOARD_HEIGHT - 4)..(BOARD_HEIGHT - 1)) :
              Holds([NewTetris(First("I")) EXCEPT
                        !.board = WellBoard(F),
                        !.lines_cleared = n,
                        !.level = (n \div 10) + 1,
                        !.score = SinglesScore(n),
                        !.current_rotation = 1,
                        !.current_piece = TETROMINOES["I"][2],
                        !.current_x = BOARD_WIDTH - 3,
                        !.current_y = BOARD_HEIGHT - 4])
    /\ NothingElse

\* game.get_drop_speed(), as the auto drop of a frame calls it
DropSpeed ==
    /\ InPlay /\ ~paused /\ last.op # "get_drop_speed"
    /\ last' = [op |-> "get_drop_speed", args |-> <<level>>,
                ret |-> get_drop_speed(Self)]
    /\ UNCHANGED <<fields, running, drawn, refill_len, spawned, tape>>
    /\ UNCHANGED elsewhere

NextLevel == AutoDrop(PlayOrders) \/ DropSpeed

SpecLevel == InitLevel /\ [][NextLevel]_vars

----------------------------------------------------------------------------
(* SpecFrame: the loop of main taken one whole iteration at a time, with the *)
(* clock.  A frame reads a key (or none), handles it, runs the auto drop     *)
(* when the drop interval has elapsed, and sleeps.  time.time() is in        *)
(* milliseconds; the two readings of one iteration are the same millisecond, *)
(* and the next iteration starts dt later (the sleep and the work).          *)

\* bound: the clock of the explored runs
MaxClock == 3000

\* the durations of a frame that are explored (the sleep is 16 ms)
FrameTimes == {400, 1000}

\* the keys a frame may read; "none" is getch() = -1
FrameKeys == {"none", "left", "down", "space", "p", "q"}

\* the levels the explored games start at, given by their lines
FrameLines == {0, 10, 100}

\* the key handling of a frame that leaves last_drop alone when p ends a pause
frame_key_no_restart(s, key, t, perm) ==
    CASE key = "q" -> [s EXCEPT !.running = FALSE]
      [] key = "p" -> [s EXCEPT !.g = [s.g EXCEPT !.paused = ~s.g.paused]]
      [] key \in PlayKeys /\ s.g.paused -> s
      [] key = "left" -> [s EXCEPT !.g = move(s.g, -1, 0).g]
      [] key = "right" -> [s EXCEPT !.g = move(s.g, 1, 0).g]
      [] key = "down" ->
            LET m == move(s.g, 0, 1)
            IN  IF m.ret
                THEN [s EXCEPT !.g = [m.g EXCEPT !.score = @ + 1], !.last_drop = t]
                ELSE [s EXCEPT !.g = m.g]
      [] key = "up" -> [s EXCEPT !.g = rotate(s.g).g]
      [] key = "space" -> [s EXCEPT !.g = hard_drop(s.g, perm), !.last_drop = t]
      [] OTHER -> s

\* lines 449-468: the key handling of a frame; s = [g, last_drop, running]
frame_key(s, key, t, perm) ==
    CASE key = "q" -> [s EXCEPT !.running = FALSE]
      [] key = "p" ->
            [s EXCEPT !.g = [s.g EXCEPT !.paused = ~s.g.paused],
                      !.last_drop = IF s.g.paused THEN t ELSE s.last_drop]
      [] key \in PlayKeys /\ s.g.paused -> s
      [] key = "left" -> [s EXCEPT !.g = move(s.g, -1, 0).g]
      [] key = "right" -> [s EXCEPT !.g = move(s.g, 1, 0).g]
      [] key = "down" ->
            LET m == move(s.g, 0, 1)
            IN  IF m.ret
                THEN [s EXCEPT !.g = [m.g EXCEPT !.score = @ + 1], !.last_drop = t]
                ELSE [s EXCEPT !.g = m.g]
      [] key = "up" -> [s EXCEPT !.g = rotate(s.g).g]
      [] key = "space" -> [s EXCEPT !.g = hard_drop(s.g, perm), !.last_drop = t]
      [] OTHER -> s

\* the auto drop running when the interval is only exceeded, not when reached
frame_auto_late(s, t, perm) ==
    IF ~s.g.paused /\ ~s.g.game_over /\ t - s.last_drop > get_drop_speed(s.g)
    THEN LET m == move(s.g, 0, 1)
         IN  [s EXCEPT !.g = IF m.ret THEN m.g ELSE lock_piece(m.g, perm),
                       !.last_drop = t]
    ELSE s

\* lines 470-476: the auto drop of a frame, at clock t
frame_auto(s, t, perm) ==
    IF ~s.g.paused /\ ~s.g.game_over /\ t - s.last_drop >= get_drop_speed(s.g)
    THEN LET m == move(s.g, 0, 1)
         IN  [s EXCEPT !.g = IF m.ret THEN m.g ELSE lock_piece(m.g, perm),
                       !.last_drop = t]
    ELSE s

\* bound: the number of frames of a run that read a key
MaxFrameKeys == 2

\* a key is read (in at most MaxFrameKeys frames) or none is
FrameKey(key) ==
    /\ key # "none" => free_steps < MaxFrameKeys
    /\ free_steps' = IF key # "none" THEN free_steps + 1 ELSE free_steps
    /\ UNCHANGED <<keys_todo, shuffles_todo>>

\* one iteration of the loop for a game that is not over
Frame(orders) ==
    /\ running /\ ~game_over
    /\ \E key \in FrameKeys, dt \in FrameTimes :
          /\ now + dt <= MaxClock
          /\ FrameKey(key)
          /\ \E perm \in (IF bag = <<>> THEN orders ELSE {KindList}) :
                LET s0 == [g |-> Self, last_drop |-> last_drop, running |-> TRUE]
                    s1 == frame_key(s0, key, now, perm)
                    s2 == IF s1.running THEN frame_auto(s1, now, perm) ELSE s1
                IN  /\ Store(s2.g)
                    /\ last_drop' = s2.last_drop
                    /\ running' = s2.running
                    /\ now' = IF s2.running THEN now + dt ELSE now
                    /\ last' = [op |-> "frame", args |-> <<key>>,
                                ret |-> s2.g # s1.g]
    /\ UNCHANGED <<typing, sokoban, mines, g2048>>

\* a game with n lines cleared one at a time whose active piece, an upright I,
\* rests on the floor in the last column, next to the rows of F
RestingGame(n, F) ==
    [NewTetris(First("I")) EXCEPT
        !.board = WellBoard(F),
        !.lines_cleared = n,
        !.level = (n \div 10) + 1,
        !.score = SinglesScore(n),
        !.current_rotation = 1,
        !.current_piece = TETROMINOES["I"][2],
        !.current_x = BOARD_WIDTH - 3,
        !.current_y = BOARD_HEIGHT - 4]

InitFrame ==
    /\ running = TRUE
    /\ keys_todo = <<>> /\ shuffles_todo = <<>> /\ free_steps = 0
    /\ last = [op |-> "new", args |-> <<>>, ret |-> TRUE]
    /\ now = 0 /\ last_drop = 0
    /\ typing = None /\ sokoban = None /\ mines = None /\ g2048 = None
    /\ \E n \in FrameLines :
          \/ Holds([NewTetris(First("O")) EXCEPT !.lines_cleared = n,
                                                  !.level = (n \div 10) + 1,
                                                  !.score = SinglesScore(n)])
          \/ \E F \in {{}, (BOARD_HEIGHT - 4)..(BOARD_HEIGHT - 1)} :
                Holds(RestingGame(n, F))

NextFrame == Frame({First("O")})

SpecFrame == InitFrame /\ [][NextFrame]_vars

-----------------------------------------------------------------------------
(* typing_game.py: words fall down the screen and are typed away.  A text is *)
(* the sequence of its characters; the clock counts milliseconds, a row of   *)
(* the screen is 1000000 units of y and a speed is in 1/1000 row per second, *)
(* so that y + speed * dt is computed in whole numbers.                      *)

WORDS_EASY ==
    {<<"c", "a", "t">>,
     <<"d", "o", "g">>,
     <<"s", "u", "n">>,
     <<"r", "u", "n">>,
     <<"f", "u", "n">>,
     <<"h", "a", "t">>,
     <<"b", "a", "t">>,
     <<"r", "a", "t">>,
     <<"m", "a", "p">>,
     <<"c", "u", "p">>,
     <<"p", "e", "n">>,
     <<"r", "e", "d">>,
     <<"b", "o", "x">>,
     <<"f", "o", "x">>,
     <<"i", "c", "e">>,
     <<"h", "o", "t">>,
     <<"b", "i", "g">>,
     <<"t", "o", "p">>,
     <<"w", "i", "n">>,
     <<"f", "l", "y">>}

WORDS_MEDIUM ==
    {<<"p", "y", "t", "h", "o", "n">>,
     <<"c", "o", "d", "i", "n", "g">>,
     <<"t", "y", "p", "i", "n", "g">>,
     <<"s", "c", "r", "e", "e", "n">>,
     <<"c", "u", "r", "s", "o", "r">>,
     <<"s", "t", "r", "i", "n", "g">>,
     <<"n", "u", "m", "b", "e", "r">>,
     <<"p", "l", "a", "n", "e", "t">>,
     <<"r", "o", "c", "k", "e", "t">>,
     <<"g", "a", "l", "a", "x", "y">>,
     <<"f", "o", "r", "e", "s", "t">>,
     <<"s", "t", "r", "e", "a", "m">>,
     <<"b", "r", "i", "d", "g", "e">>,
     <<"c", "a", "s", "t", "l", "e">>,
     <<"k", "n", "i", "g", "h", "t">>,
     <<"d", "r", "a", "g", "o", "n">>,
     <<"w", "i", "z", "a", "r", "d">>,
     <<"s", "c", "r", "o", "l", "l">>,
     <<"p", "o", "t", "i", "o", "n">>,
     <<"s", "h", "i", "e", "l", "d">>,
     <<"s", "i", "l", "v", "e", "r">>}

WORDS_HARD ==
    {<<"a", "l", "g", "o", "r", "i", "t", "h", "m">>,
     <<"b", "e", "a", "u", "t", "i", "f", "u", "l">>,
     <<"c", "h", "a", "l", "l", "e", "n", "g", "e">>,
     <<"d", "a", "n", "g", "e", "r", "o", "u", "s">>,
     <<"e", "x", "c", "e", "l", "l", "e", "n", "t">>,
     <<"f", "a", "n", "t", "a", "s", "t", "i", "c">>,
     <<"g", "e", "n", "e", "r", "a", "t", "e", "d">>,
     <<"h", "a", "p", "p", "i", "n", "e", "s", "s">>,
     <<"i", "m", "p", "o", "r", "t", "a", "n", "t">>,
     <<"j", "a", "v", "a", "s", "c", "r", "i", "p", "t">>,
     <<"k", "n", "o", "w", "l", "e", "d", "g", "e">>,
     <<"l", "e", "g", "e", "n", "d", "a", "r", "y">>,
     <<"m", "y", "s", "t", "e", "r", "i", "o", "u", "s">>,
     <<"n", "i", "g", "h", "t", "m", "a", "r", "e">>,
     <<"o", "p", "e", "r", "a", "t", "i", "n", "g">>,
     <<"p", "r", "o", "g", "r", "a", "m", "m", "e", "r">>,
     <<"q", "u", "a", "n", "t", "u", "m">>,
     <<"r", "e", "s", "p", "o", "n", "s", "i", "v", "e">>,
     <<"s", "y", "n", "t", "h", "e", "s", "i", "s">>,
     <<"t", "y", "p", "e", "s", "c", "r", "i", "p", "t">>}

ALL_WORDS == WORDS_EASY \cup WORDS_MEDIUM \cup WORDS_HARD

Row == 1000000

\* stdscr.getmaxyx() of main: the size of the terminal
TermHeight == 7
TermWidth == 40

\* Word(text, x, y, speed); x, the column the word is drawn at, is read by
\* draw_game only and is left out
Word(text, y, speed) ==
    [text |-> text, y |-> y, speed |-> speed, active |-> TRUE, matched_chars |-> 0]

\* Game(width, height)
NewTyping(width, height) ==
    [width |-> width, height |-> height, words |-> <<>>, score |-> 0,
     lives |-> 5, level |-> 1, words_typed |-> 0, game_over |-> FALSE,
     paused |-> FALSE, current_input |-> <<>>, spawn_timer |-> 0,
     combo |-> 0, max_combo |-> 0]

max(a, b) == IF a >= b THEN a ELSE b

\* in milliseconds
get_spawn_delay(t) == max(500, 2000 - (t.level - 1) * 150)

\* in 1/1000 row per second
get_word_speed(t) == 300 + (t.level - 1) * 50

\* the list random.choice draws from
word_list(t) ==
    IF t.level <= 3 THEN WORDS_EASY
    ELSE IF t.level <= 6 THEN WORDS_EASY \cup WORDS_MEDIUM
    ELSE ALL_WORDS

\* spawn_word(): text is the last draw of random.choice (a word on the screen
\* is drawn again, at most 10 times, so that any word of the list can come
\* out), jitter is the draw of random.uniform
spawn_word(t, text, jitter) ==
    [t EXCEPT !.words = Append(@, Word(text, 2 * Row, get_word_speed(t) + jitter))]

\* the loop of update over one word: it falls, and is lost at the bottom
fall_word(t, w, dt) ==
    IF ~w.active THEN w
    ELSE [w EXCEPT !.y = @ + w.speed * dt,
                   !.active = w.y + w.speed * dt < (t.height - 4) * Row]

Active(ws) == SelectSeq(ws, LAMBDA w : w.active)

\* update(dt), with the draws of spawn_word
update(t, dt, text, jitter) ==
    IF t.paused \/ t.game_over THEN t
    ELSE LET timer == t.spawn_timer + dt
             t1 == IF timer >= get_spawn_delay(t)
                   THEN [spawn_word(t, text, jitter) EXCEPT !.spawn_timer = 0]
                   ELSE [t EXCEPT !.spawn_timer = timer]
             fallen == [i \in 1..Len(t1.words) |-> fall_word(t1, t1.words[i], dt)]
             lost == Len(Active(t1.words)) - Len(Active(fallen))
         IN  [t1 EXCEPT !.words = Active(fallen),
                        !.lives = @ - lost,
                        !.combo = IF lost > 0 THEN 0 ELSE @,
                        !.game_over = lost > 0 /\ t1.lives - lost <= 0]

StartsWith(text, input) ==
    Len(input) <= Len(text) /\ SubSeq(text, 1, Len(input)) = input

\* the loop that ends type_char and the backspace branch of main
show_matched(t) ==
    [t EXCEPT !.words =
        [i \in 1..Len(t.words) |->
            [t.words[i] EXCEPT !.matched_chars =
                IF t.words[i].active /\ StartsWith(t.words[i].text, t.current_input)
                THEN Len(t.current_input) ELSE 0]]]

\* the places of the active words whose text is the input
Matching(t, input) ==
    {i \in 1..Len(t.words) : t.words[i].active /\ t.words[i].text = input}

Least(S) == CHOOSE i \in S : \A j \in S : i <= j

\* type_char(char)
type_char(t, char) ==
    IF t.game_over THEN t
    ELSE LET input == Append(t.current_input, char)
             hits == Matching(t, input)
         IN  IF hits = {}
             THEN show_matched([t EXCEPT !.current_input = input])
             ELSE LET i == Least(hits)
                      combo == t.combo + 1
                      typed == t.words_typed + 1
                  IN  show_matched(
                        [t EXCEPT !.words[i].active = FALSE,
                                  !.words_typed = typed,
                                  !.combo = combo,
                                  !.max_combo = max(@, combo),
                                  !.score = @ + Len(t.words[i].text) * 10 + combo * 5,
                                  !.level = (typed \div 10) + 1,
                                  !.current_input = <<>>])

\* clear_input()
clear_input(t) ==
    [t EXCEPT !.current_input = <<>>,
              !.words = [i \in 1..Len(t.words) |->
                            [t.words[i] EXCEPT !.matched_chars = 0]]]

\* chr(key).lower() on the keys of TypingKeys
Lower(key) == CASE key = "Q" -> "q" [] key = "R" -> "r" [] OTHER -> key

\* the keys getch returns: none (-1), Escape, Backspace, and characters
TypingKeys == {"none", "esc", "backspace", "q", "Q", "r", "c", "a", "t"}

\* the words random.choice returns and the draws of random.uniform, in 1/1000
WordChoices == {<<"c", "a", "t">>, <<"c", "u", "p">>}
Jitters == {-100, 100}

\* the time between two frames, in milliseconds
TypingTimes == {500, 1000}

\* the key handling of main, lines 353-371
typing_key(t, key) ==
    CASE key = "none" -> t
      [] key = "esc" -> clear_input(t)
      [] key \in {"r", "R"} /\ t.game_over -> NewTyping(t.width, t.height)
      [] key \notin {"none", "esc"} /\ key \notin {"r", "R"} /\ t.game_over -> t
      [] key = "backspace" /\ ~t.game_over ->
            IF t.current_input = <<>> THEN t
            ELSE show_matched([t EXCEPT !.current_input =
                                  SubSeq(@, 1, Len(@) - 1)])
      [] OTHER -> type_char(t, Lower(key))

\* the test that leaves the loop, lines 373-375
typing_quits(t, key) ==
    key \in {"q", "Q"} /\ t.current_input = <<>> /\ ~t.game_over

MaxTypingClock == 5000
MaxTypingKeys == 2

\* at most MaxTypingKeys frames of a run read a key
TypingKey(key) ==
    /\ key # "none" => free_steps < MaxTypingKeys
    /\ free_steps' = IF key # "none" THEN free_steps + 1 ELSE free_steps
    /\ UNCHANGED <<keys_todo, shuffles_todo>>

\* one iteration of the loop of main: a key, the test for quit, update(dt)
TypingFrame ==
    /\ running
    /\ \E key \in TypingKeys, dt \in TypingTimes :
          /\ now + dt <= MaxTypingClock
          /\ TypingKey(key)
          /\ LET t1 == typing_key(typing, key)
             IN  IF typing_quits(t1, key)
                 THEN /\ typing' = t1
                      /\ running' = FALSE
                      /\ now' = now
                      /\ last' = [op |-> "typing", args |-> <<key>>, ret |-> FALSE]
                 ELSE /\ \E text \in word_list(t1) \cap WordChoices, jitter \in Jitters :
                            typing' = update(t1, dt, text, jitter)
                      /\ running' = TRUE
                      /\ now' = now + dt
                      /\ last' = [op |-> "typing", args |-> <<key>>, ret |-> TRUE]
    /\ UNCHANGED <<fields, drawn, refill_len, spawned, last_drop,
                   sokoban, mines, g2048>>

\* no Tetris object exists in the process of another game
NoTetris ==
    /\ board = None /\ score = None /\ level = None /\ lines_cleared = None
    /\ game_over = None /\ paused = None /\ bag = None
    /\ current_piece = None /\ current_type = None /\ current_rotation = None
    /\ current_x = None /\ current_y = None /\ next_type = None
    /\ drawn = None /\ refill_len = None /\ spawned = None

\* the game after frames of 500 ms without a key, with c, with a and without
\* a key: the first word has come out and has fallen for one frame
CatGame(lives) ==
    [NewTyping(TermWidth, TermHeight) EXCEPT
        !.lives = lives,
        !.words = <<[Word(<<"c", "a", "t">>, 2 * Row, 400) EXCEPT
                        !.y = 2 * Row + 400 * 500]>>,
        !.current_input = <<"c", "a">>]

\* a new game, or a game two seconds later with five lives or with one left
\* (four words lost to frames longer than their fall)
InitTyping ==
    /\ running = TRUE
    /\ last = [op |-> "new", args |-> <<>>, ret |-> TRUE]
    /\ NoTetris
    /\ keys_todo = <<>> /\ shuffles_todo = <<>> /\ free_steps = 0
    /\ last_drop = 0
    /\ sokoban = None /\ mines = None /\ g2048 = None
    /\ \/ now = 0 /\ typing = NewTyping(TermWidth, TermHeight)
       \/ now = 2000 /\ \E lives \in {1, 5} : typing = CatGame(lives)

NextTyping == TypingFrame

SpecTyping == InitTyping /\ [][NextTyping]_vars

-----------------------------------------------------------------------------
(* sokoban.py: boxes are pushed onto the goals of a level *)

WALL == "#"
FLOOR == " "
GOAL == "."
BOX == "$"
BOX_ON_GOAL == "*"
PLAYER == "@"
PLAYER_ON_GOAL == "+"

LEVELS == <<
    [name |-> "First Steps",
     map |-> <<
        <<" ", " ", "#", "#", "#", "#", "#">>,
        <<"#", "#", "#", " ", " ", " ", "#">>,
        <<"#", ".", "@", "$", " ", " ", "#">>,
        <<"#", "#", "#", " ", "$", ".", "#">>,
        <<"#", ".", "#", "#", "$", " ", "#">>,
        <<"#", " ", "#", " ", ".", " ", "#", "#">>,
        <<"#", "$", " ", " ", "$", "$", ".", "#">>,
        <<"#", " ", " ", " ", ".", " ", " ", "#">>,
        <<"#", "#", "#", "#", "#", "#", "#", "#">>>>],
    [name |-> "The Corner",
     map |-> <<
        <<"#", "#", "#", "#", "#", "#", "#", "#">>,
        <<"#", " ", " ", " ", " ", " ", " ", "#">>,
        <<"#", " ", ".", "$", "@", ".", " ", "#">>,
        <<"#", " ", " ", "$", "$", " ", " ", "#">>,
        <<"#", " ", " ", ".", ".", " ", " ", "#">>,
        <<"#", " ", " ", "$", " ", " ", " ", "#">>,
        <<"#", " ", " ", " ", " ", " ", " ", "#">>,
        <<"#", "#", "#", "#", "#", "#", "#", "#">>>>],
    [name |-> "Warehouse",
     map |-> <<
        <<" ", " ", "#", "#", "#", "#", "#", "#">>,
        <<" ", " ", "#", " ", " ", " ", " ", "#">>,
        <<" ", " ", "#", " ", "#", "#", ".", "#">>,
        <<"#", "#", "#", " ", "#", "#", " ", "#", "#">>,
        <<"#", " ", " ", "$", " ", " ", " ", " ", "#">>,
        <<"#", " ", "#", " ", "#", " ", "#", " ", "#">>,
        <<"#", " ", ".", ".", "#", "$", "$", " ", "#">>,
        <<"#", "#", "#", "#", " ", " ", "@", "#", "#">>,
        <<" ", " ", " ", "#", "#", "#", "#", "#">>>>],
    [name |-> "Labyrinth",
     map |-> <<
        <<"#", "#", "#", "#", "#", "#", "#", "#", "#", "#">>,
        <<"#", " ", " ", " ", " ", " ", " ", " ", " ", "#">>,
        <<"#", " ", "#", "#", "#", "#", "#", "#", " ", "#">>,
        <<"#", " ", "#", ".", ".", ".", ".", "#", " ", "#">>,
        <<"#", " ", "#", "$", "$", "$", "$", "#", " ", "#">>,
        <<"#", " ", "#", " ", " ", " ", " ", "#", " ", "#">>,
        <<"#", " ", "#", " ", "@", " ", " ", "#", " ", "#">>,
        <<"#", " ", " ", " ", "#", "#", "#", "#", " ", "#">>,
        <<"#", " ", " ", " ", " ", " ", " ", " ", " ", "#">>,
        <<"#", "#", "#", "#", "#", "#", "#", "#", "#", "#">>>>],
    [name |-> "The Challenge",
     map |-> <<
        <<" ", " ", " ", " ", "#", "#", "#", "#", "#">>,
        <<" ", " ", " ", " ", "#", " ", " ", " ", "#">>,
        <<" ", " ", " ", " ", "#", "$", " ", " ", "#">>,
        <<" ", " ", "#", "#", "#", " ", " ", "$", "#", "#">>,
        <<" ", " ", "#", " ", " ", "$", " ", "$", " ", "#">>,
        <<"#", "#", "#", " ", "#", " ", "#", "#", " ", "#", " ", " ", " ", "#", "#", "#", "#", "#", "#">>,
        <<"#", " ", " ", " ", "#", " ", "#", "#", " ", "#", "#", "#", "#", "#", " ", " ", ".", ".", "#">>,
        <<"#", " ", "$", " ", " ", "$", " ", " ", " ", " ", " ", " ", " ", " ", " ", " ", ".", ".", "#">>,
        <<"#", "#", "#", "#", "#", " ", "#", "#", "#", " ", "#", "@", "#", "#", " ", " ", ".", ".", "#">>,
        <<" ", " ", " ", " ", "#", " ", " ", " ", " ", " ", "#", "#", "#", "#", "#", "#", "#", "#", "#">>,
        <<" ", " ", " ", " ", "#", "#", "#", "#", "#", "#", "#">>>>]>>

\* a position is <<x, y>>, counted from 0 as in the code; the grid is a
\* sequence of rows
CellAt(grid, x, y) == grid[y + 1][x + 1]

\* row.ljust(max_width)[x], x counted from 0
Ljust(row, x) == IF x + 1 <= Len(row) THEN row[x + 1] ELSE " "

MaxOf(S) == CHOOSE m \in S : \A n \in S : n <= m

\* the position met last by the two loops of load_level
LastScanned(S) ==
    CHOOSE p \in S : \A q \in S : q[2] < p[2] \/ (q[2] = p[2] /\ q[1] <= p[1])

\* load_level(level_num)
load_level(s, level_num) ==
    IF level_num < 0 \/ level_num >= Len(LEVELS) THEN [g |-> s, ret |-> FALSE]
    ELSE LET level_data == LEVELS[level_num + 1].map
             max_width == MaxOf({Len(level_data[i]) : i \in 1..Len(level_data)})
             char(x, y) == Ljust(level_data[y + 1], x)
             places == (0..(max_width - 1)) \X (0..(Len(level_data) - 1))
             players == {p \in places : char(p[1], p[2]) \in {PLAYER, PLAYER_ON_GOAL}}
         IN  [g |-> [s EXCEPT
                  !.current_level = level_num,
                  !.moves = 0,
                  !.pushes = 0,
                  !.history = <<>>,
                  !.level_name = LEVELS[level_num + 1].name,
                  !.grid = [y \in 1..Len(level_data) |->
                               [x \in 1..max_width |->
                                   LET c == char(x - 1, y - 1)
                                   IN  CASE c \in {PLAYER, PLAYER_ON_GOAL, GOAL} -> FLOOR
                                         [] c = BOX_ON_GOAL -> BOX
                                         [] OTHER -> c]],
                  !.goals = {p \in places :
                                char(p[1], p[2]) \in {PLAYER_ON_GOAL, BOX_ON_GOAL, GOAL}},
                  !.player_pos = IF players = {} THEN None ELSE LastScanned(players)],
              ret |-> TRUE]

\* Game(); completed, the levels seen complete by run, is kept for the claims
NewSokoban ==
    load_level([current_level |-> 0, max_unlocked |-> 0, moves |-> 0,
                pushes |-> 0, history |-> <<>>, level_name |-> None,
                grid |-> <<>>, goals |-> {}, player_pos |-> None,
                completed |-> {}], 0).g

\* get_boxes()
get_boxes(s) ==
    {p \in (0..(Len(s.grid[1]) - 1)) \X (0..(Len(s.grid) - 1)) :
        CellAt(s.grid, p[1], p[2]) = BOX}

\* is_complete()
is_complete(s) == get_boxes(s) = s.goals

\* can_move(x, y)
can_move(s, x, y) ==
    IF y < 0 \/ y >= Len(s.grid) \/ x < 0 \/ x >= Len(s.grid[y + 1]) THEN FALSE
    ELSE CellAt(s.grid, x, y) # WALL

\* the entry move_player appends to history
Saved(s) ==
    [player |-> s.player_pos, grid |-> s.grid, moves |-> s.moves, pushes |-> s.pushes]

\* move_player pushing a box whatever lies behind it
move_player_push_any(s, dx, dy) ==
    LET px == s.player_pos[1]
        py == s.player_pos[2]
        new_x == px + dx
        new_y == py + dy
        box_new_x == new_x + dx
        box_new_y == new_y + dy
    IN  IF ~can_move(s, new_x, new_y) THEN [g |-> s, ret |-> FALSE]
        ELSE IF CellAt(s.grid, new_x, new_y) = BOX
        THEN [g |-> [s EXCEPT
                       !.history = Append(@, Saved(s)),
                       !.grid = [[@ EXCEPT ![new_y + 1][new_x + 1] = FLOOR]
                                    EXCEPT ![box_new_y + 1][box_new_x + 1] = BOX],
                       !.pushes = @ + 1,
                       !.player_pos = <<new_x, new_y>>,
                       !.moves = @ + 1],
              ret |-> TRUE]
        ELSE [g |-> [s EXCEPT
                     !.history = Append(@, Saved(s)),
                     !.player_pos = <<new_x, new_y>>,
                     !.moves = @ + 1],
              ret |-> TRUE]

\* move_player(dx, dy)
move_player(s, dx, dy) ==
    LET px == s.player_pos[1]
        py == s.player_pos[2]
        new_x == px + dx
        new_y == py + dy
        box_new_x == new_x + dx
        box_new_y == new_y + dy
    IN  IF ~can_move(s, new_x, new_y) THEN [g |-> s, ret |-> FALSE]
        ELSE IF CellAt(s.grid, new_x, new_y) = BOX
        THEN IF ~can_move(s, box_new_x, box_new_y)
                \/ CellAt(s.grid, box_new_x, box_new_y) = BOX
             THEN [g |-> s, ret |-> FALSE]
             ELSE [g |-> [s EXCEPT
                          !.history = Append(@, Saved(s)),
                          !.grid = [[@ EXCEPT ![new_y + 1][new_x + 1] = FLOOR]
                                       EXCEPT ![box_new_y + 1][box_new_x + 1] = BOX],
                          !.pushes = @ + 1,
                          !.player_pos = <<new_x, new_y>>,
                          !.moves = @ + 1],
                   ret |-> TRUE]
        ELSE [g |-> [s EXCEPT
                     !.history = Append(@, Saved(s)),
                     !.player_pos = <<new_x, new_y>>,
                     !.moves = @ + 1],
              ret |-> TRUE]

\* an undo that forgets to restore the count of pushes
undo_keeps_pushes(s) ==
    IF s.history # <<>>
    THEN LET state == s.history[Len(s.history)]
         IN  [g |-> [s EXCEPT
                      !.history = SubSeq(@, 1, Len(@) - 1),
                      !.player_pos = state.player,
                      !.grid = state.grid,
                      !.moves = state.moves],
              ret |-> TRUE]
    ELSE [g |-> s, ret |-> FALSE]

\* undo()
undo(s) ==
    IF s.history # <<>>
    THEN LET state == s.history[Len(s.history)]
         IN  [g |-> [s EXCEPT
                      !.history = SubSeq(@, 1, Len(@) - 1),
                      !.player_pos = state.player,
                      !.grid = state.grid,
                      !.moves = state.moves,
                      !.pushes = state.pushes],
              ret |-> TRUE]
    ELSE [g |-> s, ret |-> FALSE]

\* the head of the loop of run: a complete level unlocks
loop_head(s) ==
    IF is_complete(s)
    THEN [s EXCEPT !.max_unlocked = IF s.current_level > @ THEN s.current_level ELSE @,
                   !.completed = @ \cup {s.current_level}]
    ELSE s

\* the branch of run for n
next_level(s) ==
    IF is_complete(s) \/ s.current_level < s.max_unlocked
    THEN IF s.current_level < Len(LEVELS) - 1
         THEN load_level(s, s.current_level + 1)
         ELSE [g |-> s, ret |-> FALSE]
    ELSE [g |-> s, ret |-> FALSE]

\* the branch of run for p
prev_level(s) ==
    IF s.current_level > 0 THEN load_level(s, s.current_level - 1)
    ELSE [g |-> s, ret |-> FALSE]

\* w, s, a, d and the arrows get_char turns into them
Directions == [w |-> <<0, -1>>, s |-> <<0, 1>>, a |-> <<-1, 0>>, d |-> <<1, 0>>]

\* bound: the number of keys pressed off the script
MaxSokobanKeys == 2

\* key k is read: the script's next key, or a key off the script
Typed(k) ==
    /\ IF keys_todo # <<>> /\ Head(keys_todo) = k
       THEN keys_todo' = Tail(keys_todo) /\ free_steps' = free_steps
       ELSE /\ free_steps < MaxSokobanKeys
            /\ keys_todo' = <<>> /\ free_steps' = free_steps + 1
    /\ UNCHANGED shuffles_todo

\* what an iteration of run leaves alone
SokobanOnly ==
    UNCHANGED <<fields, drawn, refill_len, spawned, now, last_drop,
                typing, mines, g2048>>

\* an iteration of run after get_char: the branch taken for the key with its
\* result r, then the head of the next iteration
Iteration(k, r) ==
    /\ running /\ Typed(k)
    /\ sokoban' = loop_head(r.g)
    /\ last' = [op |-> k, args |-> <<>>, ret |-> r.ret]
    /\ running' = TRUE
    /\ SokobanOnly

\* q, or Ctrl+C
SokobanQuit ==
    /\ running
    /\ \E k \in {"q", "ctrl-c"} :
          Typed(k) /\ last' = [op |-> k, args |-> <<>>, ret |-> TRUE]
    /\ running' = FALSE
    /\ UNCHANGED sokoban
    /\ SokobanOnly

\* r
SokobanRestart == Iteration("r", load_level(sokoban, sokoban.current_level))

\* u
SokobanUndo == Iteration("u", undo(sokoban))

\* n
SokobanNext == Iteration("n", next_level(sokoban))

\* p
SokobanPrev == Iteration("p", prev_level(sokoban))

\* w, s, a, d
SokobanMove ==
    \E k \in DOMAIN Directions :
        Iteration(k, move_player(sokoban, Directions[k][1], Directions[k][2]))

\* a key that run has no branch for
SokobanOther == Iteration("other", [g |-> sokoban, ret |-> FALSE])

\* the keys that complete level 1 and, after n, level 2 (found by a search
\* over the moves)
SolveOne ==
    <<"d", "w", "d", "d", "s", "a", "a", "a", "d", "s", "d", "s", "d", "s", "s",
      "d", "s", "a", "w", "a", "a", "s", "a", "a", "w", "w", "s", "d", "d", "d", "d">>
SolveTwo ==
    <<"s", "w", "a", "s", "a", "s", "s", "d", "d", "s", "d", "w", "w", "w">>

\* a step, a step back, a push, and the undos of all three
StepsAndUndos == <<"a", "d", "d", "u", "u", "u">>

SokobanScripts == {<<>>, SolveOne \o <<"n">> \o SolveTwo, StepsAndUndos}

\* game = Game() in main, and the head of the first iteration of run
InitSokoban ==
    /\ running = TRUE /\ now = 0
    /\ last = [op |-> "new", args |-> <<>>, ret |-> TRUE]
    /\ NoTetris /\ shuffles_todo = <<>> /\ free_steps = 0 /\ last_drop = 0
    /\ typing = None /\ mines = None /\ g2048 = None
    /\ keys_todo \in SokobanScripts
    /\ sokoban = loop_head(NewSokoban)

NextSokoban ==
    \/ SokobanQuit
    \/ SokobanRestart
    \/ SokobanUndo
    \/ SokobanNext
    \/ SokobanPrev
    \/ SokobanMove
    \/ SokobanOther

SpecSokoban == InitSokoban /\ [][NextSokoban]_vars

-----------------------------------------------------------------------------
(* minesweeper.py.  The three lists of lists of a game (mines, state,        *)
(* adjacent) are functions of the position <<x, y>>, counted from 0.         *)

HIDDEN == 0
REVEALED == 1
FLAGGED == 2

\* the cells of a board
Cells(width, height) == (0..(width - 1)) \X (0..(height - 1))

\* Minesweeper(width, height, num_mines)
NewMinesweeper(width, height, num_mines) ==
    [width |-> width, height |-> height, num_mines |-> num_mines,
     cursor_x |-> 0, cursor_y |-> 0, game_over |-> FALSE, won |-> FALSE,
     first_click |-> TRUE, start_time |-> None, end_time |-> None,
     mines |-> [p \in Cells(width, height) |-> FALSE],
     state |-> [p \in Cells(width, height) |-> HIDDEN],
     adjacent |-> [p \in Cells(width, height) |-> 0]]

\* the cells of the board among the nine around (x, y), the cell included
Around(m, x, y) ==
    {p \in Cells(m.width, m.height) :
        p[1] - x \in -1..1 /\ p[2] - y \in -1..1}

\* a list of positions that leaves no cell out
positions_all(m, exclude_x, exclude_y) == Cells(m.width, m.height)

\* the list random.sample draws from in place_mines
positions(m, exclude_x, exclude_y) ==
    Cells(m.width, m.height) \ Around(m, exclude_x, exclude_y)

\* every result of random.sample(positions, k), as a set of cells
RECURSIVE Samples(_, _)
Samples(S, k) ==
    IF k = 0 THEN {{}}
    ELSE IF Cardinality(S) < k THEN {}
    ELSE LET p == CHOOSE q \in S : TRUE
         IN  Samples(S \ {p}, k) \cup {T \cup {p} : T \in Samples(S \ {p}, k - 1)}

\* place_mines(exclude_x, exclude_y) when random.sample returns mine_positions
place_mines(m, mine_positions) ==
    LET mined == [p \in Cells(m.width, m.height) |->
                      m.mines[p] \/ p \in mine_positions]
    IN  [m EXCEPT
            !.mines = mined,
            !.adjacent = [p \in Cells(m.width, m.height) |->
                IF mined[p] THEN m.adjacent[p]
                ELSE Cardinality({q \in Around(m, p[1], p[2]) : mined[q]})]]

\* check_win taking a flagged cell for a revealed one
check_win_flags_count(m, t) ==
    IF \E p \in Cells(m.width, m.height) : ~m.mines[p] /\ m.state[p] = HIDDEN
    THEN m
    ELSE [m EXCEPT !.game_over = TRUE, !.won = TRUE, !.end_time = t]

\* check_win(), when the clock reads t
check_win(m, t) ==
    IF \E p \in Cells(m.width, m.height) : ~m.mines[p] /\ m.state[p] # REVEALED
    THEN m
    ELSE [m EXCEPT !.game_over = TRUE, !.won = TRUE, !.end_time = t]

\* the loop of reveal over its stack: R holds the cells revealed so far; a
\* revealed cell without a mine next to it pushes its hidden neighbours
RECURSIVE Flood(_, _)
Flood(m, R) ==
    LET more == {q \in Cells(m.width, m.height) :
                    /\ q \notin R /\ m.state[q] = HIDDEN
                    /\ \E c \in R : m.adjacent[c] = 0 /\ q \in Around(m, c[1], c[2])}
    IN  IF more = {} THEN R ELSE Flood(m, R \cup more)

\* reveal(x, y), when the clock reads t and random.sample returns sample
reveal(m, x, y, t, sample) ==
    IF m.game_over \/ m.state[<<x, y>>] # HIDDEN THEN m
    ELSE LET m1 == IF m.first_click
                   THEN place_mines([m EXCEPT !.first_click = FALSE,
                                              !.start_time = t], sample)
                   ELSE m
         IN  IF m1.mines[<<x, y>>]
             THEN [m1 EXCEPT
                     !.game_over = TRUE, !.won = FALSE, !.end_time = t,
                     !.state = [p \in Cells(m.width, m.height) |->
                                   IF m1.mines[p] THEN REVEALED ELSE @[p]]]
             ELSE LET R == Flood(m1, {<<x, y>>})
                  IN  check_win([m1 EXCEPT
                          !.state = [p \in Cells(m.width, m.height) |->
                                        IF p \in R THEN REVEALED ELSE @[p]]], t)

\* toggle_flag(x, y), when the clock reads t
toggle_flag(m, x, y, t) ==
    IF m.game_over \/ m.state[<<x, y>>] = REVEALED THEN m
    ELSE check_win([m EXCEPT !.state[<<x, y>>] =
                        IF @ = HIDDEN THEN FLAGGED ELSE HIDDEN], t)

\* the boards select_difficulty offers: sides up to MaxSide, and numbers of
\* mines below, near and above the number of cells left for them
MaxSide == 3
MineCounts == {1, 2, 20}
Settings ==
    [width : 1..MaxSide, height : 1..MaxSide, mines : MineCounts]

\* what random.sample may return in a reveal of the cursor's cell
Draws(m) ==
    IF m.first_click /\ ~m.game_over /\ m.state[<<m.cursor_x, m.cursor_y>>] = HIDDEN
    THEN LET P == positions(m, m.cursor_x, m.cursor_y)
         IN  Samples(P, min(m.num_mines, Cardinality(P)))
    ELSE {{}}

\* bound: the number of keys read in a run
MaxMinesKeys == 3

MinesKey ==
    /\ running /\ free_steps < MaxMinesKeys
    /\ free_steps' = free_steps + 1
    /\ UNCHANGED <<fields, drawn, refill_len, spawned, keys_todo, shuffles_todo,
                   now, last_drop, typing, sokoban, g2048>>

\* the arrows, w, s, a, d
MinesCursor ==
    /\ MinesKey /\ ~mines.game_over
    /\ \E k \in {"up", "down", "left", "right"} :
          /\ mines' =
               CASE k = "up" -> [mines EXCEPT !.cursor_y = max(0, @ - 1)]
                 [] k = "down" -> [mines EXCEPT !.cursor_y = min(mines.height - 1, @ + 1)]
                 [] k = "left" -> [mines EXCEPT !.cursor_x = max(0, @ - 1)]
                 [] k = "right" -> [mines EXCEPT !.cursor_x = min(mines.width - 1, @ + 1)]
          /\ last' = [op |-> k, args |-> <<>>, ret |-> TRUE]
    /\ UNCHANGED running

\* space, Enter
MinesReveal ==
    /\ MinesKey /\ ~mines.game_over
    /\ \E sample \in Draws(mines) :
          mines' = reveal(mines, mines.cursor_x, mines.cursor_y, now, sample)
    /\ last' = [op |-> "reveal", args |-> <<mines.cursor_x, mines.cursor_y>>,
                ret |-> mines.first_click]
    /\ UNCHANGED running

\* f, m
MinesFlag ==
    /\ MinesKey /\ ~mines.game_over
    /\ mines' = toggle_flag(mines, mines.cursor_x, mines.cursor_y, now)
    /\ last' = [op |-> "flag", args |-> <<mines.cursor_x, mines.cursor_y>>,
                ret |-> TRUE]
    /\ UNCHANGED running

\* another key, or a key of the game once it is over
MinesIgnored ==
    /\ MinesKey
    /\ UNCHANGED <<mines, running>>
    /\ last' = [op |-> "ignored", args |-> <<>>, ret |-> FALSE]

\* r, and the same board chosen again on the screen of select_difficulty
MinesNew ==
    /\ MinesKey
    /\ mines' = NewMinesweeper(mines.width, mines.height, mines.num_mines)
    /\ last' = [op |-> "r", args |-> <<>>, ret |-> TRUE]
    /\ UNCHANGED running

\* q in the game, or r and q on the screen of select_difficulty
MinesQuit ==
    /\ running
    /\ running' = FALSE
    /\ last' = [op |-> "q", args |-> <<>>, ret |-> TRUE]
    /\ UNCHANGED <<fields, drawn, refill_len, spawned, tape, elsewhere>>

\* a new game on one of the boards, after keys that moved the cursor
InitMines ==
    /\ running = TRUE /\ now = 0
    /\ last = [op |-> "new", args |-> <<>>, ret |-> TRUE]
    /\ NoTetris
    /\ keys_todo = <<>> /\ shuffles_todo = <<>> /\ free_steps = 0
    /\ last_drop = 0
    /\ typing = None /\ sokoban = None /\ g2048 = None
    /\ \E s \in Settings : \E c \in Cells(s.width, s.height) :
          mines = [NewMinesweeper(s.width, s.height, s.mines) EXCEPT
                      !.cursor_x = c[1], !.cursor_y = c[2]]

NextMines ==
    \/ MinesCursor
    \/ MinesReveal
    \/ MinesFlag
    \/ MinesIgnored
    \/ MinesNew
    \/ MinesQuit

SpecMines == InitMines /\ [][NextMines]_vars

-----------------------------------------------------------------------------
(* game2048.py *)

\* two plays found by a search over keys and draws, each entry a key of main
\* and the cell and tile of the spawn_tile that follows: the first makes the
\* 2048 tile on a board that is left full, the second fills the board without
\* a merge
PlayTo2048 ==
    <<
      <<"a", 1, 0, 4>>, <<"d", 3, 1, 4>>, <<"w", 0, 0, 4>>, <<"a", 0, 1, 4>>, <<"w", 2, 0, 4>>,
      <<"d", 3, 1, 4>>, <<"w", 0, 0, 4>>, <<"s", 0, 0, 4>>, <<"w", 0, 1, 4>>, <<"a", 1, 1, 4>>,
      <<"d", 0, 0, 4>>, <<"w", 1, 0, 4>>, <<"a", 0, 1, 4>>, <<"d", 0, 1, 4>>, <<"a", 3, 0, 4>>,
      <<"w", 3, 1, 4>>, <<"w", 0, 1, 4>>, <<"d", 0, 1, 4>>, <<"d", 0, 1, 4>>, <<"w", 1, 1, 4>>,
      <<"a", 3, 0, 4>>, <<"a", 3, 0, 4>>, <<"d", 0, 0, 4>>, <<"w", 0, 1, 4>>, <<"w", 0, 1, 4>>,
      <<"d", 0, 1, 4>>, <<"a", 1, 1, 4>>, <<"w", 0, 1, 4>>, <<"a", 1, 1, 4>>, <<"d", 3, 2, 4>>,
      <<"w", 0, 0, 4>>, <<"d", 0, 1, 4>>, <<"w", 0, 1, 4>>, <<"d", 0, 1, 4>>, <<"a", 1, 1, 4>>,
      <<"w", 0, 1, 4>>, <<"a", 1, 1, 4>>, <<"d", 3, 2, 4>>, <<"w", 0, 2, 4>>, <<"a", 0, 3, 4>>,
      <<"w", 1, 1, 4>>, <<"a", 2, 1, 4>>, <<"a", 2, 0, 4>>, <<"a", 3, 0, 4>>, <<"a", 3, 0, 4>>,
      <<"s", 3, 0, 4>>, <<"w", 0, 2, 4>>, <<"d", 3, 3, 4>>, <<"w", 0, 0, 4>>, <<"d", 0, 0, 4>>,
      <<"a", 3, 0, 4>>, <<"w", 3, 1, 4>>, <<"w", 0, 1, 4>>, <<"d", 0, 1, 4>>, <<"d", 0, 1, 4>>,
      <<"w", 1, 1, 4>>, <<"a", 1, 1, 4>>, <<"d", 3, 2, 4>>, <<"w", 0, 1, 4>>, <<"d", 2, 2, 4>>,
      <<"w", 0, 1, 4>>, <<"a", 0, 2, 4>>, <<"w", 2, 1, 4>>, <<"a", 1, 2, 4>>, <<"w", 0, 1, 4>>,
      <<"d", 0, 1, 4>>, <<"a", 2, 1, 4>>, <<"a", 2, 1, 4>>, <<"a", 2, 1, 4>>, <<"d", 3, 2, 4>>,
      <<"w", 0, 1, 4>>, <<"d", 0, 1, 4>>, <<"d", 0, 1, 4>>, <<"w", 1, 1, 4>>, <<"a", 3, 0, 4>>,
      <<"a", 3, 0, 4>>, <<"a", 3, 0, 4>>, <<"s", 3, 0, 4>>, <<"w", 0, 2, 4>>, <<"d", 3, 3, 4>>,
      <<"w", 0, 1, 4>>, <<"a", 0, 2, 4>>, <<"w", 3, 0, 4>>, <<"a", 3, 1, 4>>, <<"w", 1, 1, 4>>,
      <<"d", 3, 2, 4>>, <<"w", 0, 1, 4>>, <<"s", 0, 0, 4>>, <<"a", 1, 0, 4>>, <<"d", 1, 0, 4>>,
      <<"w", 0, 0, 4>>, <<"s", 0, 0, 4>>, <<"w", 0, 1, 4>>, <<"d", 0, 1, 4>>, <<"a", 3, 0, 4>>,
      <<"d", 0, 1, 4>>, <<"w", 0, 2, 4>>, <<"s", 0, 1, 4>>, <<"d", 0, 0, 4>>, <<"s", 1, 2, 4>>,
      <<"a", 0, 0, 4>>, <<"w", 3, 0, 4>>, <<"a", 3, 0, 4>>, <<"d", 0, 0, 4>>, <<"a", 3, 0, 4>>,
      <<"s", 3, 0, 4>>, <<"w", 2, 1, 4>>, <<"a", 3, 1, 4>>, <<"d", 0, 0, 4>>, <<"w", 0, 1, 4>>,
      <<"w", 3, 1, 4>>, <<"a", 2, 2, 4>>, <<"w", 3, 0, 4>>, <<"s", 3, 0, 4>>, <<"s", 0, 0, 4>>,
      <<"a", 1, 0, 4>>, <<"a", 1, 0, 4>>, <<"d", 3, 1, 4>>, <<"w", 0, 0, 4>>, <<"a", 3, 0, 4>>,
      <<"s", 1, 1, 4>>, <<"a", 2, 0, 4>>, <<"w", 3, 0, 4>>, <<"s", 3, 0, 4>>, <<"w", 2, 1, 4>>,
      <<"a", 3, 1, 4>>, <<"a", 3, 0, 4>>, <<"s", 3, 0, 4>>, <<"s", 1, 1, 4>>, <<"a", 1, 0, 4>>,
      <<"s", 2, 1, 4>>, <<"a", 1, 0, 4>>, <<"w", 2, 0, 4>>, <<"a", 2, 1, 4>>, <<"w", 3, 0, 4>>,
      <<"a", 3, 0, 4>>, <<"a", 2, 0, 4>>, <<"s", 2, 0, 4>>, <<"w", 3, 0, 4>>, <<"a", 3, 0, 4>>,
      <<"a", 3, 0, 4>>, <<"s", 3, 0, 4>>, <<"w", 1, 1, 4>>, <<"a", 2, 1, 4>>, <<"a", 2, 0, 4>>,
      <<"a", 2, 0, 4>>, <<"a", 2, 0, 4>>, <<"w", 3, 0, 4>>, <<"a", 3, 0, 4>>, <<"s", 3, 0, 4>>,
      <<"w", 1, 1, 4>>, <<"a", 2, 1, 4>>, <<"a", 2, 0, 4>>, <<"s", 2, 0, 4>>, <<"s", 0, 0, 4>>,
      <<"a", 1, 0, 4>>, <<"a", 1, 0, 4>>, <<"d", 3, 1, 4>>, <<"w", 0, 0, 4>>, <<"d", 0, 0, 4>>,
      <<"a", 2, 0, 4>>, <<"s", 2, 0, 4>>, <<"w", 3, 0, 4>>, <<"s", 3, 0, 4>>, <<"s", 0, 0, 4>>,
      <<"a", 1, 0, 4>>, <<"a", 2, 0, 4>>, <<"w", 3, 0, 4>>, <<"a", 2, 0, 4>>, <<"s", 2, 0, 4>>,
      <<"w", 3, 0, 4>>, <<"a", 3, 0, 4>>, <<"a", 3, 0, 4>>, <<"s", 3, 0, 4>>, <<"w", 1, 1, 4>>,
      <<"a", 2, 1, 4>>, <<"a", 2, 0, 4>>, <<"a", 2, 0, 4>>, <<"a", 2, 0, 4>>, <<"w", 3, 0, 4>>,
      <<"a", 3, 0, 4>>, <<"s", 3, 0, 4>>, <<"w", 1, 1, 4>>, <<"a", 2, 1, 4>>, <<"a", 2, 0, 4>>,
      <<"s", 2, 0, 4>>, <<"s", 0, 0, 4>>, <<"a", 1, 0, 4>>, <<"a", 1, 0, 4>>, <<"w", 2, 0, 4>>,
      <<"a", 2, 0, 4>>, <<"a", 2, 0, 4>>, <<"a", 2, 0, 4>>, <<"s", 2, 0, 4>>, <<"w", 2, 2, 4>>,
      <<"a", 3, 2, 4>>, <<"d", 1, 3, 4>>, <<"w", 0, 1, 4>>, <<"a", 2, 0, 4>>, <<"a", 2, 0, 4>>,
      <<"d", 0, 0, 4>>, <<"w", 0, 1, 4>>, <<"w", 0, 2, 4>>, <<"a", 0, 3, 4>>, <<"w", 3, 0, 4>>,
      <<"s", 3, 0, 4>>, <<"w", 2, 1, 4>>, <<"d", 3, 2, 4>>, <<"w", 1, 2, 4>>, <<"w", 0, 2, 4>>,
      <<"a", 3, 0, 4>>, <<"w", 3, 1, 4>>, <<"w", 2, 1, 4>>, <<"d", 3, 2, 4>>, <<"w", 0, 1, 4>>,
      <<"w", 0, 2, 4>>, <<"w", 0, 2, 4>>, <<"d", 0, 2, 4>>, <<"a", 1, 2, 4>>, <<"w", 0, 2, 4>>,
      <<"a", 1, 2, 4>>, <<"w", 0, 2, 4>>, <<"a", 2, 1, 4>>, <<"w", 3, 1, 4>>, <<"a", 0, 2, 4>>,
      <<"d", 0, 2, 4>>, <<"d", 0, 1, 4>>, <<"w", 0, 2, 4>>, <<"w", 0, 2, 4>>, <<"a", 1, 2, 4>>,
      <<"a", 2, 2, 4>>, <<"s", 3, 3, 4>>, <<"a", 0, 0, 4>>, <<"s", 0, 0, 4>>, <<"w", 2, 1, 4>>,
      <<"s", 3, 3, 4>>, <<"a", 0, 0, 4>>, <<"a", 1, 0, 4>>, <<"a", 1, 0, 4>>, <<"s", 1, 0, 4>>,
      <<"w", 3, 0, 4>>, <<"s", 3, 0, 4>>, <<"w", 3, 1, 4>>, <<"a", 3, 1, 4>>, <<"d", 0, 1, 4>>,
      <<"w", 0, 2, 4>>, <<"s", 0, 1, 4>>, <<"d", 2, 0, 4>>, <<"w", 0, 0, 4>>, <<"w", 0, 1, 4>>,
      <<"s", 0, 0, 4>>, <<"a", 1, 0, 4>>, <<"a", 1, 0, 4>>, <<"s", 1, 0, 4>>, <<"w", 3, 0, 4>>,
      <<"a", 3, 0, 4>>, <<"a", 3, 0, 4>>, <<"s", 3, 0, 4>>, <<"w", 2, 1, 4>>, <<"a", 3, 1, 4>>,
      <<"a", 2, 2, 4>>, <<"s", 3, 3, 4>>, <<"d", 0, 0, 4>>, <<"w", 0, 1, 4>>, <<"w", 0, 1, 4>>,
      <<"d", 0, 2, 4>>, <<"w", 2, 3, 4>>, <<"s", 0, 0, 4>>, <<"a", 2, 0, 4>>, <<"w", 3, 1, 4>>,
      <<"s", 1, 0, 4>>, <<"d", 0, 0, 4>>, <<"s", 1, 2, 4>>, <<"a", 3, 0, 4>>, <<"w", 2, 1, 4>>,
      <<"a", 2, 2, 4>>, <<"s", 0, 0, 4>>, <<"a", 1, 0, 4>>, <<"a", 1, 0, 4>>, <<"d", 3, 1, 4>>,
      <<"w", 0, 1, 4>>, <<"d", 1, 0, 4>>, <<"w", 0, 0, 4>>, <<"a", 2, 1, 4>>, <<"w", 2, 2, 4>>,
      <<"s", 1, 2, 4>>, <<"d", 0, 0, 4>>, <<"s", 1, 2, 4>>, <<"a", 0, 0, 4>>, <<"a", 1, 0, 4>>,
      <<"a", 1, 0, 4>>, <<"w", 2, 0, 4>>, <<"a", 2, 0, 4>>, <<"s", 2, 0, 4>>, <<"w", 3, 0, 4>>,
      <<"a", 3, 0, 4>>, <<"a", 2, 0, 4>>, <<"s", 2, 0, 4>>, <<"w", 3, 0, 4>>, <<"a", 3, 0, 4>>,
      <<"a", 3, 0, 4>>, <<"s", 3, 0, 4>>, <<"w", 2, 1, 4>>, <<"a", 3, 1, 4>>, <<"a", 2, 0, 4>>,
      <<"a", 2, 0, 4>>, <<"d", 0, 0, 4>>, <<"w", 0, 1, 4>>, <<"w", 0, 1, 4>>, <<"a", 0, 2, 4>>,
      <<"w", 2, 1, 4>>, <<"w", 3, 1, 4>>, <<"a", 2, 1, 4>>, <<"d", 3, 2, 4>>, <<"w", 0, 1, 4>>,
      <<"d", 1, 2, 4>>, <<"w", 0, 1, 4>>, <<"d", 0, 1, 4>>, <<"a", 3, 1, 4>>, <<"a", 2, 2, 4>>,
      <<"w", 3, 1, 4>>, <<"a", 3, 1, 4>>, <<"a", 3, 1, 4>>, <<"a", 3, 1, 4>>, <<"a", 0, 2, 4>>,
      <<"d", 0, 2, 4>>, <<"d", 1, 2, 4>>, <<"w", 0, 2, 4>>, <<"d", 0, 1, 4>>, <<"w", 1, 1, 4>>,
      <<"a", 3, 0, 4>>, <<"a", 3, 0, 4>>, <<"a", 0, 2, 4>>, <<"w", 1, 2, 4>>, <<"a", 3, 0, 4>>,
      <<"w", 3, 1, 4>>, <<"w", 0, 2, 4>>, <<"d", 3, 3, 4>>, <<"w", 0, 1, 4>>, <<"d", 0, 1, 4>>,
      <<"a", 2, 1, 4>>, <<"w", 3, 1, 4>>, <<"d", 0, 1, 4>>, <<"w", 0, 2, 4>>, <<"w", 0, 2, 4>>,
      <<"d", 0, 2, 4>>, <<"a", 1, 2, 4>>, <<"w", 0, 2, 4>>, <<"a", 1, 2, 4>>, <<"w", 0, 2, 4>>,
      <<"a", 2, 1, 4>>, <<"w", 3, 1, 4>>, <<"a", 0, 2, 4>>, <<"d", 0, 2, 4>>, <<"d", 0, 1, 4>>,
      <<"w", 0, 2, 4>>, <<"w", 0, 2, 4>>, <<"a", 1, 2, 4>>, <<"a", 2, 2, 4>>, <<"s", 3, 3, 4>>,
      <<"a", 0, 0, 4>>, <<"s", 0, 0, 4>>, <<"w", 2, 1, 4>>, <<"s", 3, 3, 4>>, <<"a", 0, 0, 4>>,
      <<"a", 1, 0, 4>>, <<"a", 1, 0, 4>>, <<"s", 1, 0, 4>>, <<"w", 3, 0, 4>>, <<"s", 3, 0, 4>>,
      <<"w", 3, 1, 4>>, <<"a", 3, 1, 4>>, <<"d", 0, 1, 4>>, <<"w", 0, 2, 4>>, <<"s", 0, 1, 4>>,
      <<"d", 2, 0, 4>>, <<"w", 0, 0, 4>>, <<"w", 0, 1, 4>>, <<"s", 0, 0, 4>>, <<"a", 1, 0, 4>>,
      <<"a", 1, 0, 4>>, <<"s", 1, 0, 4>>, <<"w", 3, 0, 4>>, <<"a", 3, 0, 4>>, <<"a", 3, 0, 4>>,
      <<"s", 3, 0, 4>>, <<"w", 2, 1, 4>>, <<"a", 3, 1, 4>>, <<"a", 2, 2, 4>>, <<"s", 3, 3, 4>>,
      <<"d", 0, 0, 4>>, <<"w", 0, 1, 4>>, <<"w", 0, 1, 4>>, <<"d", 0, 2, 4>>, <<"w", 2, 3, 4>>,
      <<"s", 0, 0, 4>>, <<"a", 2, 0, 4>>, <<"w", 3, 1, 4>>, <<"w", 3, 2, 4>>, <<"s", 1, 0, 4>>,
      <<"d", 1, 0, 4>>, <<"w", 0, 0, 4>>, <<"a", 2, 2, 4>>, <<"s", 3, 3, 4>>, <<"a", 0, 0, 4>>,
      <<"s", 0, 0, 4>>, <<"w", 2, 1, 4>>, <<"s", 3, 3, 4>>, <<"a", 0, 0, 4>>, <<"a", 1, 0, 4>>,
      <<"a", 1, 0, 4>>, <<"s", 1, 0, 4>>, <<"w", 3, 0, 4>>, <<"a", 3, 1, 4>>, <<"w", 3, 1, 4>>,
      <<"a", 3, 1, 4>>, <<"d", 0, 1, 4>>, <<"w", 0, 2, 4>>, <<"w", 0, 2, 4>>, <<"d", 3, 3, 4>>,
      <<"w", 0, 1, 4>>, <<"d", 0, 1, 4>>, <<"a", 1, 2, 4>>, <<"w", 0, 2, 4>>, <<"d", 3, 3, 4>>,
      <<"w", 0, 3, 4>>, <<"a", 3, 0, 4>>, <<"w", 3, 1, 4>>, <<"w", 2, 1, 4>>, <<"d", 3, 2, 4>>,
      <<"w", 0, 1, 4>>, <<"w", 0, 2, 4>>, <<"w", 0, 2, 4>>, <<"d", 0, 2, 4>>, <<"a", 1, 2, 4>>,
      <<"w", 0, 2, 4>>, <<"d", 0, 1, 4>>, <<"w", 1, 1, 4>>, <<"a", 2, 1, 4>>, <<"w", 3, 1, 4>>,
      <<"a", 0, 2, 4>>, <<"d", 0, 2, 4>>, <<"d", 0, 1, 4>>, <<"w", 0, 2, 4>>, <<"w", 0, 2, 4>>,
      <<"d", 0, 2, 4>>, <<"a", 1, 2, 4>>, <<"w", 0, 2, 4>>, <<"a", 3, 1, 4>>, <<"a", 3, 1, 4>>,
      <<"d", 0, 1, 4>>, <<"w", 0, 2, 4>>, <<"w", 0, 2, 4>>, <<"d", 0, 2, 4>>, <<"a", 1, 2, 4>>,
      <<"w", 0, 2, 4>>, <<"a", 1, 2, 4>>, <<"d", 3, 3, 4>>, <<"w", 0, 2, 4>>, <<"d", 2, 3, 4>>,
      <<"w", 0, 2, 4>>, <<"w", 1, 2, 4>>, <<"a", 3, 0, 4>>, <<"a", 3, 1, 4>>, <<"w", 3, 1, 4>>,
      <<"a", 3, 1, 4>>, <<"d", 0, 1, 4>>, <<"w", 0, 2, 4>>, <<"w", 0, 2, 4>>, <<"d", 0, 2, 4>>,
      <<"a", 3, 1, 4>>, <<"w", 3, 2, 4>>, <<"w", 0, 2, 4>>, <<"d", 0, 2, 4>>, <<"d", 0, 2, 4>>,
      <<"w", 0, 3, 4>>, <<"w", 1, 2, 4>>, <<"d", 3, 3, 4>>, <<"s", 0, 0, 4>>, <<"a", 1, 0, 4>>,
      <<"a", 1, 0, 4>>, <<"s", 2, 0, 4>>, <<"a", 2, 1, 4>>, <<"a", 3, 1, 4>>, <<"d", 0, 0, 4>>,
      <<"w", 0, 1, 4>>, <<"w", 0, 1, 4>>, <<"d", 0, 1, 4>>, <<"a", 3, 1, 4>>, <<"w", 3, 2, 4>>,
      <<"w", 2, 2, 4>>, <<"d", 3, 3, 4>>, <<"w", 3, 2, 4>>, <<"a", 3, 2, 4>>, <<"a", 1, 3, 4>>,
      <<"s", 2, 1, 4>>, <<"a", 2, 0, 4>>, <<"w", 2, 2, 4>>, <<"a", 3, 0, 4>>, <<"s", 3, 0, 4>>,
      <<"w", 2, 2, 4>>, <<"a", 2, 3, 4>>, <<"s", 1, 0, 4>>, <<"a", 2, 0, 4>>, <<"a", 2, 0, 4>>,
      <<"w", 3, 0, 4>>, <<"a", 3, 1, 4>>, <<"d", 0, 0, 4>>, <<"s", 1, 2, 4>>, <<"a", 1, 0, 4>>,
      <<"s", 2, 0, 4>>, <<"a", 2, 0, 4>>, <<"a", 2, 0, 4>>, <<"w", 3, 1, 4>>, <<"a", 3, 0, 4>>,
      <<"s", 1, 0, 4>>, <<"w", 3, 2, 4>>, <<"w", 3, 2, 4>>, <<"w", 1, 3, 4>>, <<"w", 2, 3, 4>>,
      <<"d", 0, 2, 4>>, <<"a", 2, 3, 4>>, <<"s", 3, 0, 4>>, <<"a", 2, 0, 4>>, <<"a", 2, 0, 4>>,
      <<"w", 3, 1, 4>>, <<"d", 0, 2, 4>>, <<"w", 1, 1, 4>>, <<"a", 2, 2, 4>>, <<"w", 1, 2, 4>>,
      <<"a", 3, 0, 4>>, <<"d", 3, 3, 4>>, <<"s", 0, 0, 4>>, <<"a", 2, 0, 4>>, <<"w", 2, 1, 4>>,
      <<"s", 3, 3, 4>>, <<"a", 0, 0, 4>>, <<"w", 3, 0, 4>>, <<"a", 3, 1, 4>>, <<"s", 1, 0, 4>>,
      <<"a", 1, 0, 4>>, <<"s", 1, 0, 4>>, <<"w", 3, 0, 4>>, <<"a", 3, 0, 4>>, <<"a", 2, 0, 4>>,
      <<"w", 3, 0, 4>>, <<"a", 2, 1, 4>>, <<"d", 2, 3, 4>>, <<"s", 0, 0, 4>>, <<"a", 2, 2, 4>>,
      <<"a", 1, 0, 2>>, <<"d", 0, 0, 2>>, <<"a", 3, 0, 4>>, <<"d", 0, 1, 2>>, <<"a", 3, 2, 2>>,
      <<"a", 3, 2, 4>>, <<"d", 0, 1, 4>>, <<"a", 3, 3, 2>>, <<"w", 0, 3, 2>>>>

PlayToOver ==
    <<
      <<"d", 0, 0, 2>>, <<"s", 0, 0, 4>>, <<"w", 1, 0, 2>>, <<"s", 0, 0, 2>>, <<"w", 1, 1, 4>>,
      <<"s", 0, 0, 2>>, <<"d", 0, 0, 4>>, <<"a", 2, 0, 4>>, <<"d", 0, 1, 4>>, <<"a", 3, 0, 2>>,
      <<"d", 0, 1, 2>>, <<"a", 3, 1, 4>>, <<"d", 0, 2, 2>>, <<"d", 0, 2, 4>>>>

\* a cell is <<x, y>>, counted from 0 as in the code; the board is a sequence
\* of rows
Tile(b, x, y) == b[y + 1][x + 1]

\* empty_cells of spawn_tile
empty_cells(g) ==
    {c \in (0..(g.size - 1)) \X (0..(g.size - 1)) : Tile(g.board, c[1], c[2]) = 0}

\* spawn_tile(), when random.choice returns the cell (draw[1], draw[2]) and
\* random.random makes the tile draw[3]
spawn_tile(g, draw) ==
    IF empty_cells(g) = {} THEN g
    ELSE [g EXCEPT !.board[draw[2] + 1][draw[1] + 1] = draw[3]]

\* [x for x in row if x != 0]
NonZero(row) == SelectSeq(row, LAMBDA v : v # 0)

\* a loop that does not skip the second tile of a merge
RECURSIVE Merged_twice(_, _)
Merged_twice(new_row, i) ==
    IF i > Len(new_row) THEN [row |-> <<>>, gained |-> 0]
    ELSE LET rest == Merged_twice(new_row, i + 1)
         IN  IF i + 1 <= Len(new_row) /\ new_row[i] = new_row[i + 1]
             THEN [row |-> <<new_row[i] * 2>> \o rest.row,
                   gained |-> new_row[i] * 2 + rest.gained]
             ELSE [row |-> <<new_row[i]>> \o rest.row, gained |-> rest.gained]

\* the loop of slide_row_left from index i (counted from 1) on
RECURSIVE Merged(_, _)
Merged(new_row, i) ==
    IF i > Len(new_row) THEN [row |-> <<>>, gained |-> 0]
    ELSE IF i + 1 <= Len(new_row) /\ new_row[i] = new_row[i + 1]
    THEN LET rest == Merged(new_row, i + 2)
         IN  [row |-> <<new_row[i] * 2>> \o rest.row,
              gained |-> new_row[i] * 2 + rest.gained]
    ELSE LET rest == Merged(new_row, i + 1)
         IN  [row |-> <<new_row[i]>> \o rest.row, gained |-> rest.gained]

\* merged.append(0) while len(merged) < size
Padded(row, size) ==
    row \o [i \in 1..(IF Len(row) < size THEN size - Len(row) ELSE 0) |-> 0]

\* slide_row_left(row) on a board of the given size: the row returned and
\* what it adds to self.score
slide_row_left(size, row) ==
    LET m == Merged(NonZero(row), 1)
    IN  [row |-> Padded(m.row, size), gained |-> m.gained]

\* row[::-1]
Reversed(row) == [i \in 1..Len(row) |-> row[Len(row) + 1 - i]]

\* [self.board[y][x] for y in range(self.size)], x counted from 1
Column(b, x) == [y \in 1..Len(b) |-> b[y][x]]

\* the lines of the board a move slides, each read in the direction of the
\* move, and the board made of the lines slid
Lines(g, direction) ==
    [i \in 1..g.size |->
        CASE direction = "left" -> g.board[i]
          [] direction = "right" -> Reversed(g.board[i])
          [] direction = "up" -> Column(g.board, i)
          [] direction = "down" -> Reversed(Column(g.board, i))]

Unlined(size, lines, direction) ==
    [y \in 1..size |-> [x \in 1..size |->
        CASE direction = "left" -> lines[y][x]
          [] direction = "right" -> lines[y][size + 1 - x]
          [] direction = "up" -> lines[x][y]
          [] direction = "down" -> lines[x][size + 1 - y]]]

RECURSIVE SumOf(_, _)
SumOf(f, n) == IF n = 0 THEN 0 ELSE f[n] + SumOf(f, n - 1)

\* the tiles of a move slid, before spawn_tile
Slid(g, direction) ==
    LET slides == [i \in 1..g.size |-> slide_row_left(g.size, Lines(g, direction)[i])]
    IN  [g EXCEPT
            !.board = Unlined(g.size, [i \in 1..g.size |-> slides[i].row], direction),
            !.score = @ + SumOf([i \in 1..g.size |-> slides[i].gained], g.size)]

\* no two neighbours in a row or in a column are equal
NoMerge(g) ==
    \A y \in 0..(g.size - 1) : \A x \in 0..(g.size - 1) :
        /\ x + 1 < g.size => Tile(g.board, x + 1, y) # Tile(g.board, x, y)
        /\ y + 1 < g.size => Tile(g.board, x, y + 1) # Tile(g.board, x, y)

\* the board holds the tile
Holds2048(g) == \E y \in 1..g.size : \E x \in 1..g.size : g.board[y][x] = 2048

\* check_game_state()
check_game_state(g) ==
    IF ~g.continue_playing /\ Holds2048(g) THEN [g EXCEPT !.won = TRUE]
    ELSE IF empty_cells(g) # {} THEN g
    ELSE IF ~NoMerge(g) THEN g
    ELSE [g EXCEPT !.game_over = TRUE]

\* move spawning a tile whether the board changed or not
move2048_spawns_always(g, direction, draw) ==
    LET s == Slid(g, direction)
        t == check_game_state(spawn_tile(s, draw))
    IN  [t EXCEPT !.best_score = IF t.score > @ THEN t.score ELSE @]

\* move(direction), with the draw of spawn_tile
move2048(g, direction, draw) ==
    LET s == Slid(g, direction)
        t == IF s.board # g.board THEN check_game_state(spawn_tile(s, draw)) ELSE s
    IN  [t EXCEPT !.best_score = IF t.score > @ THEN t.score ELSE @]

\* Game2048(): two tiles are drawn
NewGame2048(size, draw1, draw2) ==
    spawn_tile(spawn_tile(
        [size |-> size, board |-> [y \in 1..size |-> [x \in 1..size |-> 0]],
         score |-> 0, best_score |-> 0, game_over |-> FALSE, won |-> FALSE,
         continue_playing |-> FALSE], draw1), draw2)

\* the keys of main that slide the tiles
Slides == [w |-> "up", s |-> "down", a |-> "left", d |-> "right"]

\* main lets the moves through
Playable(g) == ~g.game_over /\ (~g.won \/ g.continue_playing)

\* bound: the number of keys pressed off the script
MaxKeys2048 == 1

\* the draws explored off the script: the first and the last empty cell in
\* the order of the rows, a 2 or a 4
DrawsOf(g) ==
    LET E == empty_cells(g)
        before(c, d) == c[2] < d[2] \/ (c[2] = d[2] /\ c[1] <= d[1])
    IN  IF E = {} THEN {<<0, 0, 2>>}
        ELSE {<<c[1], c[2], v>> : c \in {e \in E : (\A d \in E : before(e, d))
                                                 \/ (\A d \in E : before(d, e))},
                                   v \in {2, 4}}

\* key k is read; the script keys_todo pairs each key with the draw of the
\* spawn_tile that follows it
OnScript(k) == keys_todo # <<>> /\ Head(keys_todo)[1] = k

Read2048(k) ==
    /\ IF OnScript(k)
       THEN keys_todo' = Tail(keys_todo) /\ free_steps' = free_steps
       ELSE /\ free_steps < MaxKeys2048
            /\ keys_todo' = <<>> /\ free_steps' = free_steps + 1
    /\ UNCHANGED <<fields, drawn, refill_len, spawned, shuffles_todo,
                   now, last_drop, typing, sokoban, mines>>

\* w, s, a, d and the arrows
Move2048 ==
    /\ running /\ Playable(g2048)
    /\ \E k \in DOMAIN Slides :
          /\ Read2048(k)
          /\ \E draw \in (IF OnScript(k)
                          THEN {SubSeq(Head(keys_todo), 2, 4)}
                          ELSE DrawsOf(Slid(g2048, Slides[k]))) :
                g2048' = move2048(g2048, Slides[k], draw)
          /\ last' = [op |-> Slides[k], args |-> <<>>,
                      ret |-> Slid(g2048, Slides[k]).board # g2048.board]
    /\ UNCHANGED running

\* c on the screen that tells the game is won
Continue2048 ==
    /\ running /\ g2048.won /\ Read2048("c")
    /\ g2048' = [g2048 EXCEPT !.continue_playing = TRUE, !.won = FALSE]
    /\ last' = [op |-> "c", args |-> <<>>, ret |-> TRUE]
    /\ UNCHANGED running

\* r
New2048 ==
    /\ running /\ Read2048("r")
    /\ \E draw1 \in {<<0, 0, 2>>, <<3, 3, 4>>}, draw2 \in {<<1, 0, 2>>, <<0, 3, 4>>} :
          g2048' = NewGame2048(g2048.size, draw1, draw2)
    /\ last' = [op |-> "r", args |-> <<>>, ret |-> TRUE]
    /\ UNCHANGED running

\* q
Quit2048 ==
    /\ running /\ Read2048("q")
    /\ running' = FALSE
    /\ last' = [op |-> "q", args |-> <<>>, ret |-> TRUE]
    /\ UNCHANGED g2048

\* a key main does not act on: a key of a move once the game is over or won
Ignored2048 ==
    /\ running /\ ~Playable(g2048) /\ Read2048("ignored")
    /\ last' = [op |-> "ignored", args |-> <<>>, ret |-> FALSE]
    /\ UNCHANGED <<g2048, running>>

\* the runs: a script of keys and draws, and the two draws of Game2048()
Scripts2048 ==
    {[first |-> <<<<0, 0, 4>>, <<1, 0, 4>>>>, steps |-> PlayTo2048],
     [first |-> <<<<0, 0, 2>>, <<1, 0, 4>>>>, steps |-> PlayToOver],
     [first |-> <<<<0, 0, 2>>, <<1, 0, 2>>>>, steps |-> <<>>]}

\* game = Game2048() in main
Init2048 ==
    /\ running = TRUE /\ now = 0
    /\ last = [op |-> "new", args |-> <<>>, ret |-> TRUE]
    /\ NoTetris
    /\ shuffles_todo = <<>> /\ free_steps = 0 /\ last_drop = 0
    /\ typing = None /\ sokoban = None /\ mines = None
    /\ \E sc \in Scripts2048 :
          /\ keys_todo = sc.steps
          /\ g2048 = NewGame2048(4, sc.first[1], sc.first[2])

Next2048 ==
    \/ Move2048
    \/ Continue2048
    \/ New2048
    \/ Quit2048
    \/ Ignored2048

Spec2048 == Init2048 /\ [][Next2048]_vars

\* the rows slide_row_left is tried on, and the score before it
RowTiles == {0, 2, 4, 8}
RowsTried == [1..4 -> RowTiles]
ScoresTried == {0, 100}

\* a game and a row of its size
InitSlide ==
    /\ running = TRUE /\ now = 0
    /\ NoTetris
    /\ keys_todo = <<>> /\ shuffles_todo = <<>> /\ free_steps = 0 /\ last_drop = 0
    /\ typing = None /\ sokoban = None /\ mines = None
    /\ \E row \in RowsTried, score0 \in ScoresTried :
          /\ g2048 = [NewGame2048(4, <<0, 0, 2>>, <<1, 0, 2>>) EXCEPT !.score = score0]
          /\ last = [op |-> "input", args |-> <<row, score0>>, ret |-> <<>>]

\* merged = self.slide_row_left(row)
SlideRow ==
    /\ last.op = "input"
    /\ LET r == slide_row_left(g2048.size, last.args[1])
       IN  /\ g2048' = [g2048 EXCEPT !.score = @ + r.gained]
           /\ last' = [op |-> "slide_row_left", args |-> last.args, ret |-> r.row]
    /\ UNCHANGED <<fields, drawn, refill_len, spawned, tape, running,
                   now, last_drop, typing, sokoban, mines>>

NextSlide == SlideRow

SpecSlide == InitSlide /\ [][NextSlide]_vars

----------------------------------------------------------------------------
(* SpecGravity: a game left to the auto drop.  getch() returns -1 in every   *)
(* frame; the clock runs, so the drop interval elapses again and again and   *)
(* the auto drop of lines 470-476 keeps being taken while the game is in     *)
(* play.                                                                     *)

\* the auto drop that leaves a piece that cannot move where it is
Gravity_no_lock(orders) ==
    /\ running /\ ~paused /\ ~game_over
    /\ LET m == move(Self, 0, 1)
       IN  /\ Store(m.g)
           /\ last' = [op |-> "auto", args |-> <<>>, ret |-> m.ret]
    /\ UNCHANGED <<running, tape>>
    /\ UNCHANGED elsewhere

\* a frame that reads no key and whose drop interval has elapsed
Gravity(orders) ==
    /\ running /\ ~paused /\ ~game_over
    /\ LET m == move(Self, 0, 1)
       IN  /\ \E perm \in (IF ~m.ret /\ bag = <<>> THEN orders ELSE {KindList}) :
                 \E g \in {IF m.ret THEN m.g ELSE lock_piece(m.g, perm)} : Store(g)
           /\ last' = [op |-> "auto", args |-> <<>>, ret |-> m.ret]
    /\ UNCHANGED <<running, tape>>
    /\ UNCHANGED elsewhere

InitGravity == Start(NoScript, PlayOrders)

NextGravity == Gravity(PlayOrders)

SpecGravity == InitGravity /\ [][NextGravity]_vars /\ WF_vars(NextGravity)

----------------------------------------------------------------------------
(* Claims *)

Range(seq) == {seq[i] : i \in 1..Len(seq)}

\* each kind occurs exactly once in seq
OnceEach(seq) ==
    \A k \in Kinds : Cardinality({i \in 1..Len(seq) : seq[i] = k}) = 1

\* C1: the bag is refilled only when it is empty (every refill found len(bag) = 0),
\* and the draws since a refill are distinct kinds, none of them still in the
\* bag, so that the 7 draws that follow a refill are each kind exactly once
C1_BagBlock ==
    /\ refill_len = 0
    /\ Len(drawn) + Len(bag) = 7
    /\ Range(drawn) \cap Range(bag) = {}
    /\ Range(drawn) \cup Range(bag) = Kinds
    /\ (bag = <<>> => OnceEach(drawn))

\* a block of 7 draws is complete, and (4 pieces locked) 4 of its draws were
\* made after construction
C1_Witness == bag = <<>> /\ Len(drawn) = 7 /\ Len(spawned) = 5

\* C2: the pieces that became the active piece, cut into windows of 7 from the
\* first piece of the game, hold each kind exactly once per window
C2_ActiveWindows ==
    \A w \in 0..(Len(spawned) \div 7) :
        7 * w + 7 <= Len(spawned) => OnceEach(SubSeq(spawned, 7 * w + 1, 7 * w + 7))

\* the cells at offset (x, y) are where the claim C3 says a piece may be
FitsAt(brd, x, y, cells) ==
    \A i \in 1..Len(cells) :
        LET cx == x + cells[i][1]
            cy == y + cells[i][2]
        IN  /\ 0 <= cx /\ cx < BOARD_WIDTH
            /\ cy < BOARD_HEIGHT
            /\ (cy < 0 \/ brd[cy + 1][cx + 1] = None)

\* C3: is_valid_position(x, y, cells) is true iff every cell is in a column
\* 0..9 and a row < 20 and is above the board (row < 0) or on an empty cell
C3_IsValidPosition ==
    last.op = "is_valid_position" =>
        (last.ret <=> FitsAt(board, last.args[1], last.args[2],
                             TETROMINOES[last.args[3]][last.args[4] + 1]))

\* a position with a cell above the board was accepted, in a column whose
\* bottom cell is occupied
C3_Witness ==
    /\ last.op = "is_valid_position" /\ last.ret
    /\ \E c \in Range(TETROMINOES[last.args[3]][last.args[4] + 1]) :
          /\ last.args[2] + c[2] < 0
          /\ board[BOARD_HEIGHT][last.args[1] + c[1] + 1] # None

\* the calls of move the program makes: left, right, down
MoveDirs == {<<-1, 0>>, <<1, 0>>, <<0, 1>>}

\* C4: move(dx, dy) sets the offset to (x+dx, y+dy) and returns True if that
\* position is valid, and returns False otherwise; it changes nothing else
C4_Move ==
    InPlay =>
        \A d \in MoveDirs :
            LET m == move(Self, d[1], d[2])
            IN  IF FitsAt(board, current_x + d[1], current_y + d[2], current_piece)
                THEN /\ m.ret
                     /\ m.g = [Self EXCEPT !.current_x = current_x + d[1],
                                           !.current_y = current_y + d[2]]
                ELSE ~m.ret /\ m.g = Self

\* a move to the left or to the right was rejected
C4_Witness == last.op \in {"left", "right"} /\ ~last.ret

\* the rotation state rotate() turns the piece to, and the offsets it tries
RotTarget == (current_rotation + 1) % 4
RotCells == TETROMINOES[current_type][RotTarget + 1]
RotOffsets == << <<0, 0>>, <<-1, 0>>, <<1, 0>>, <<-2, 0>>, <<2, 0>>, <<0, -1>> >>
RotFits(i) ==
    FitsAt(board, current_x + RotOffsets[i][1], current_y + RotOffsets[i][2], RotCells)

\* C5: rotate() commits the first of the offsets (0,0), (-1,0), (+1,0), (-2,0),
\* (+2,0), (0,-1) at which the cells of rotation (r+1) mod 4 are valid:
\* rotation index, cells and offset change together, nothing else does
C5_RotateFirstFit ==
    InPlay =>
        \A i \in 1..Len(RotOffsets) :
            (RotFits(i) /\ \A j \in 1..(i - 1) : ~RotFits(j)) =>
                LET r == rotate(Self)
                IN  /\ r.ret
                    /\ r.g = [Self EXCEPT !.current_rotation = RotTarget,
                                          !.current_piece = RotCells,
                                          !.current_x = current_x + RotOffsets[i][1],
                                          !.current_y = current_y + RotOffsets[i][2]]

\* a rotation was committed at the last offset, (0,-1)
C5_Witness == last.op = "up" /\ last.ret /\ last.args = <<0, -1>>

\* C6: when the rotated cells are valid at none of the six offsets, rotate()
\* returns False and changes nothing
C6_RotateRejected ==
    InPlay =>
        ((\A i \in 1..Len(RotOffsets) : ~RotFits(i)) =>
            LET r == rotate(Self) IN ~r.ret /\ r.g = Self)

\* a rotation was rejected
C6_Witness == last.op = "up" /\ ~last.ret

\* the board is empty and the piece is where it spawned
AtSpawnOnEmptyBoard ==
    /\ \A y \in 1..BOARD_HEIGHT : board[y] = EmptyRow
    /\ current_x = 3 /\ current_y = 0 /\ current_rotation = 0

\* C7: four successful calls of rotate() restore rotation index and cells; on
\* the empty board, where the piece spawned, the four calls succeed and none
\* moves the piece
C7_RotateFourTimes ==
    InPlay =>
        LET r1 == rotate(Self)
            r2 == rotate(r1.g)
            r3 == rotate(r2.g)
            r4 == rotate(r3.g)
        IN  /\ (r1.ret /\ r2.ret /\ r3.ret /\ r4.ret) =>
                  /\ r4.g.current_rotation = current_rotation
                  /\ r4.g.current_piece = current_piece
            /\ AtSpawnOnEmptyBoard =>
                  /\ r1.ret /\ r2.ret /\ r3.ret /\ r4.ret
                  /\ \A r \in {r1, r2, r3, r4} :
                        r.g.current_x = current_x /\ r.g.current_y = current_y
                  /\ r4.g = Self

\* the fourth rotation in a row of a piece where it spawned, on the empty board
C7_Witness ==
    /\ AtSpawnOnEmptyBoard /\ last.op = "up" /\ last.ret
    /\ keys_todo = <<>> /\ free_steps = 0 /\ Len(spawned) = 1

\* the number of steps down the active piece can make
DropDistance ==
    CHOOSE d \in 0..BOARD_HEIGHT :
        /\ \A k \in 1..d : FitsAt(board, current_x, current_y + k, current_piece)
        /\ ~FitsAt(board, current_x, current_y + d + 1, current_piece)

\* the board with the active piece written d rows below where it is
Landed(d) ==
    [y \in 1..BOARD_HEIGHT |-> [x \in 1..BOARD_WIDTH |->
        IF \E c \in Range(current_piece) :
              current_x + c[1] = x - 1 /\ current_y + d + c[2] = y - 1
        THEN current_type ELSE board[y][x]]]

NotFull(row) == ~RowFull(row)

\* brd without its full rows, and as many empty rows on top
Compact(brd) ==
    LET keep == SelectSeq(brd, NotFull)
    IN  [i \in 1..(Len(brd) - Len(keep)) |-> EmptyRow] \o keep

FullRows(brd) == {y \in 1..Len(brd) : RowFull(brd[y])}

\* the reward of the spec for n lines, n <= 4
LinePoints(n) ==
    CASE n = 0 -> 0 [] n = 1 -> 100 [] n = 2 -> 300 [] n = 3 -> 500 [] n = 4 -> 800

\* C8: hard_drop() moves the piece down by the largest number d of valid steps,
\* adds 2*d to the score, and locks it there in the same call: the piece is
\* written, the full rows are cleared and scored, the next piece is spawned
C8_HardDrop ==
    [][last'.op = "space" =>
        LET d == DropDistance
            n == Cardinality(FullRows(Landed(d)))
        IN  /\ board' = Compact(Landed(d))
            /\ score' = score + 2 * d + LinePoints(n) * level
            /\ lines_cleared' = lines_cleared + n
            /\ spawned' = Append(spawned, next_type)
            /\ current_type' = next_type
            /\ current_rotation' = 0 /\ current_x' = 3 /\ current_y' = 0
      ]_vars

\* a hard drop from a height completed a line
C8_Witness == last.op = "space" /\ lines_cleared > 0 /\ score > 100 * lines_cleared

Occupied(brd) ==
    Cardinality({c \in (1..Len(brd)) \X (1..BOARD_WIDTH) : brd[c[1]][c[2]] # None})

\* C9: every lock adds exactly 4 occupied cells to the playfield before the
\* lines are cleared (each cleared line takes 10 away)
C9_LockAddsFourCells ==
    [][Len(spawned') = Len(spawned) + 1 =>
          Occupied(board') + 10 * (lines_cleared' - lines_cleared)
              = Occupied(board) + 4
      ]_vars

\* C10: clear_lines() removes exactly the full rows, adjacent or not; the other
\* rows keep their contents and their order and move down, as many empty rows
\* come in at the top, the board keeps its 20 rows of 10 cells, and
\* lines_cleared grows by the number of rows removed
C10_ClearLines ==
    [][last'.op = "clear_lines" =>
        LET full == FullRows(board)
            n == Cardinality(full)
            \* the number of rows that are not full, from row r down
            below(r) == Cardinality({q \in r..BOARD_HEIGHT : q \notin full})
        IN  /\ Len(board') = BOARD_HEIGHT
            /\ \A r \in 1..BOARD_HEIGHT : Len(board'[r]) = BOARD_WIDTH
            /\ \A r \in 1..n : board'[r] = EmptyRow
            /\ \A r \in (1..BOARD_HEIGHT) \ full :
                  board'[BOARD_HEIGHT + 1 - below(r)] = board[r]
            /\ board' = Compact(board)
            /\ lines_cleared' = lines_cleared + n
      ]_vars

\* rows 5 and 7 were full, row 6 was not, and clear_lines() has run
C10_Witness == last.op = "clear_lines" /\ last.args = <<5, 7>>

\* the step locks the active piece
Locks == Len(spawned') = Len(spawned) + 1

\* the number of rows the locking piece falls in a step that locks it: a hard
\* drop (fall = TRUE) or a failed gravity step
LockDepth(fall) == IF fall THEN DropDistance ELSE 0

\* the number of rows that are full once the piece is written
Completes(fall) == LET d == LockDepth(fall) IN Cardinality(FullRows(Landed(d)))

\* C11: a lock completes between 0 and 4 rows and lines_cleared grows by
\* between 0 and 4, so points.get never falls back to its default
C11_AtMostFourLines ==
    [][Locks =>
          /\ \A fall \in BOOLEAN :
                (fall <=> last'.op = "space") => Completes(fall) \in 0..4
          /\ lines_cleared' - lines_cleared \in 0..4
      ]_vars

\* a hard drop has cleared 4 lines at once
C11_Witness == last.op = "space" /\ lines_cleared = 4 /\ score >= 800

\* C12: a lock that clears n lines, n in 1..4, adds 100, 300, 500 or 800 times
\* the level it found to the score (next to the 2 points per row of a hard
\* drop); a lock that clears no line leaves score, lines_cleared and level
C12_LineClearScore ==
    [][Locks =>
          \A fall \in BOOLEAN :
              (fall <=> last'.op = "space") =>
                  LET n == Completes(fall)
                      d == LockDepth(fall)
                  IN  /\ n \in 1..4 =>
                            /\ score' = score + 2 * d + LinePoints(n) * level
                            /\ lines_cleared' = lines_cleared + n
                      /\ n = 0 =>
                            /\ score' = score + 2 * d
                            /\ lines_cleared' = lines_cleared
                            /\ level' = level
      ]_vars

\* a gravity lock cleared 4 lines at level 3, for 2400 points
C12_Witness ==
    /\ last.op = "auto" /\ ~last.ret
    /\ lines_cleared = 24 /\ score = SinglesScore(20) + 2400

\* C13: level = lines_cleared // 10 + 1 in every state; the level starts at 1,
\* never decreases, and a step takes it from 1 to 2 exactly when it takes
\* lines_cleared from below 10 to 10 or more
C13_Level ==
    /\ level = 1 /\ lines_cleared = 0
    /\ [](level = (lines_cleared \div 10) + 1)
    /\ [][/\ level' >= level
          /\ (level = 1 /\ level' = 2) <=> (lines_cleared < 10 /\ lines_cleared' >= 10)
         ]_vars

\* the tenth line has been cleared
C13_Witness == lines_cleared = 10 /\ level = 2

\* the seconds per row of the spec for the levels 1..10, in milliseconds
SpeedTable ==
    [l \in 1..10 |->
        CASE l = 1 -> 1000 [] l = 2 -> 800 [] l = 3 -> 650 [] l = 4 -> 500
          [] l = 5 -> 400 [] l = 6 -> 300 [] l = 7 -> 250 [] l = 8 -> 200
          [] l = 9 -> 150 [] l = 10 -> 100]

\* C14: get_drop_speed() returns the table entry for min(level, 10); the
\* interval is no longer at a level than at a lower level, and is 0.1 seconds
\* at every level from 10 on
C14_DropSpeed ==
    /\ last.op = "get_drop_speed" =>
          last.ret = SpeedTable[IF level < 10 THEN level ELSE 10]
    /\ \A l \in 1..level :
          get_drop_speed([Self EXCEPT !.level = l]) >= get_drop_speed(Self)
    /\ level >= 10 => get_drop_speed(Self) = 100

\* get_drop_speed() was called at level 12
C14_Witness == last.op = "get_drop_speed" /\ level = 12 /\ last.ret = 100

\* the board once the locking piece is written, before the lines are cleared
Written(fall) == LET d == LockDepth(fall) IN Landed(d)

\* the step is a restart from the game over screen
Restarts == last'.op = "r"

\* C15: a spawn (at a lock, or in Tetris()) gives the piece rotation 0 and the
\* offset (3, 0) and writes nothing to the board; game_over is true after it
\* exactly when the piece does not fit there; no other step changes game_over,
\* and within a game it is never reset
C15_Spawn ==
    [][/\ (Locks \/ Restarts) =>
            /\ current_rotation' = 0 /\ current_x' = 3 /\ current_y' = 0
            /\ current_piece' = TETROMINOES[current_type'][1]
            /\ game_over' <=> ~FitsAt(board', 3, 0, current_piece')
       /\ Locks =>
            \A fall \in BOOLEAN :
                (fall <=> last'.op = "space") => board' = Compact(Written(fall))
       /\ Restarts => \A r \in 1..BOARD_HEIGHT : board'[r] = EmptyRow
       /\ ~Locks /\ ~Restarts => game_over' = game_over
       /\ game_over /\ ~Restarts => game_over'
      ]_vars

\* a lock spawned a piece that does not fit
C15_Witness == game_over /\ last.op \in {"space", "auto"} /\ ~FitsAt(board, 3, 0, current_piece)

\* C16: a spawn that fails creates no active piece: kind and cells of the
\* active piece and the preview stay those of before the spawn
C16_FailedSpawnKeepsPiece ==
    [][Locks /\ game_over' =>
          /\ current_type' = current_type
          /\ current_piece' = current_piece
          /\ next_type' = next_type
      ]_vars

\* the kinds of the pieces locked so far
LockedKinds == {spawned[i] : i \in 1..(Len(spawned) - 1)}

\* C17: only a lock changes the board (a restart starts a new one): every
\* occupied cell was written by a piece locked before, and the falling piece
\* is not in the grid
C17_BoardOnlyLocked ==
    /\ [](\A r \in 1..BOARD_HEIGHT : \A c \in 1..BOARD_WIDTH :
              board[r][c] # None => board[r][c] \in LockedKinds)
    /\ [](Occupied(board) <= 4 * (Len(spawned) - 1) - 10 * lines_cleared)
    /\ [](~game_over => FitsAt(board, current_x, current_y, current_piece))
    /\ [][~Locks /\ ~Restarts => board' = board]_vars

\* a soft drop moved the piece over a board that holds locked pieces
C17_Witness == last.op = "down" /\ last.ret /\ Occupied(board) > 0

\* C18: while the game is paused a frame changes nothing of the game but the
\* pause flag; the keys of play and gravity are not acted on
C18_Paused ==
    [][paused =>
          /\ last'.op \in {"p", "q", "ignored", "get_ghost_y"}
          /\ UNCHANGED <<board, current_piece, current_type, current_rotation,
                         current_x, current_y, next_type, bag, score, level,
                         lines_cleared, game_over>>
      ]_vars

\* the space key was pressed during a pause
C18_Witness == paused /\ last.op = "ignored" /\ last.args = <<"space">>

\* C19: once game_over is true, nothing but Q and R is acted on and the game
\* does not change; R starts a fresh game
C19_GameOverTerminal ==
    [][game_over =>
          IF Restarts
          THEN /\ \A r \in 1..BOARD_HEIGHT : board'[r] = EmptyRow
               /\ score' = 0 /\ level' = 1 /\ lines_cleared' = 0
               /\ ~paused' /\ ~game_over'
          ELSE /\ last'.op \in {"q", "ignored", "get_ghost_y"}
               /\ UNCHANGED fields
      ]_vars

\* a game was restarted on the game over screen
C19_Witness ==
    /\ last.op = "r" /\ ~game_over /\ score = 0 /\ Occupied(board) = 0
    /\ Len(spawned) = 1

\* C20: a soft drop that succeeds moves the piece down one row and adds 1
\* point; one that fails adds nothing and does not lock; a step down made by
\* gravity adds no point, and a gravity lock adds the reward of its lines only
C20_DropScoring ==
    [][/\ last'.op = "down" =>
            /\ ~Locks /\ board' = board /\ current_x' = current_x
            /\ IF FitsAt(board, current_x, current_y + 1, current_piece)
               THEN current_y' = current_y + 1 /\ score' = score + 1
               ELSE current_y' = current_y /\ score' = score
       /\ last'.op = "auto" =>
            IF FitsAt(board, current_x, current_y + 1, current_piece)
            THEN current_y' = current_y + 1 /\ score' = score /\ ~Locks
            ELSE Locks /\ score' = score + LinePoints(Completes(FALSE)) * level
      ]_vars

\* a soft drop failed
C20_Witness == last.op = "down" /\ ~last.ret

\* C22: get_ghost_y() returns current_y plus the largest number of rows the
\* piece can go down through valid positions (current_y when there is none);
\* it is the row at which hard_drop leaves the piece, after ghost_y -
\* current_y steps, and the call changes nothing
C22_GhostY ==
    /\ [](LET ghost_y == get_ghost_y(Self)
              drop == DropLoop(Self, 0)
          IN  /\ ghost_y = current_y + DropDistance
              /\ drop.ret = ghost_y - current_y
              /\ drop.g.current_y = ghost_y)
    /\ [][last'.op = "get_ghost_y" =>
              /\ last'.ret = current_y + DropDistance
              /\ UNCHANGED <<fields, running>>
         ]_vars

\* the ghost of a piece above a board that holds locked pieces was computed
C22_Witness ==
    /\ last.op = "get_ghost_y" /\ ~game_over
    /\ last.ret > current_y /\ last.ret < BOARD_HEIGHT - 4 /\ Occupied(board) > 0

\* the board with an O in the columns x + 1, x + 2 of the bottom two rows
BottomO(x) ==
    [r \in 1..BOARD_HEIGHT |-> [c \in 1..BOARD_WIDTH |->
        IF r \in {BOARD_HEIGHT - 1, BOARD_HEIGHT} /\ c - 1 \in {x + 1, x + 2}
        THEN "O" ELSE None]]

\* C23: in a new game whose first piece is O, a hard drop after moves to the
\* left locks the O in rows 18 and 19 of the empty board, clears no line,
\* leaves level and lines and adds 2 * 18 = 36 to the score
C23_DropO ==
    [][(/\ Len(spawned) = 1 /\ current_type = "O" /\ current_y = 0
        /\ current_x < 3 /\ Occupied(board) = 0
        /\ last'.op = "space") =>
            /\ board' = BottomO(current_x)
            /\ lines_cleared' = lines_cleared /\ lines_cleared' = 0
            /\ level' = level /\ level' = 1
            /\ score' = score + 36
      ]_vars

\* the first piece, an O, was moved to the left wall and dropped
C23_Witness ==
    /\ last.op = "space" /\ Len(spawned) = 2 /\ spawned[1] = "O"
    /\ board = BottomO(-1) /\ score = 36

\* C30: each of the 7 kinds has 4 rotation states of 4 distinct cells each,
\* with columns and rows in 0..3; the active piece is the state of its kind
\* that current_rotation names
C30_Catalog ==
    /\ current_piece = TETROMINOES[current_type][current_rotation + 1]
    /\ Cardinality(Kinds) = 7 /\ DOMAIN TETROMINOES = Kinds
    /\ \A k \in Kinds :
          /\ Len(TETROMINOES[k]) = 4
          /\ \A r \in 1..4 :
                /\ Len(TETROMINOES[k][r]) = 4
                /\ Cardinality(Range(TETROMINOES[k][r])) = 4
                /\ Range(TETROMINOES[k][r]) \subseteq (0..3) \X (0..3)

\* an L is in its fourth rotation state
C30_Witness ==
    current_type = "L" /\ current_rotation = 3 /\ current_piece = TETROMINOES["L"][4]

\* the drop interval of the spec at level l, in milliseconds
Interval(l) == SpeedTable[IF l < 10 THEN l ELSE 10]

\* C21: in a frame without a key, when the game is not paused and the time
\* since last_drop has reached the interval of the level, the piece goes down
\* exactly one row, or, when it cannot, is locked in that frame (lines cleared,
\* next piece spawned); last_drop becomes the time of the frame either way;
\* before the interval has elapsed the frame changes nothing
C21_Gravity ==
    [][(last'.op = "frame" /\ last'.args = <<"none">>) =>
          IF ~paused /\ ~game_over /\ now - last_drop >= Interval(level)
          THEN /\ last_drop' = now
               /\ IF FitsAt(board, current_x, current_y + 1, current_piece)
                  THEN /\ current_y' = current_y + 1 /\ current_x' = current_x
                       /\ board' = board /\ score' = score /\ ~Locks
                  ELSE /\ Locks
                       /\ board' = Compact(Written(FALSE))
                       /\ lines_cleared' = lines_cleared + Completes(FALSE)
                       /\ current_type' = next_type
          ELSE UNCHANGED <<fields, last_drop>>
      ]_vars

\* a frame without a key locked the resting piece, which cleared four lines
C21_Witness ==
    /\ last.op = "frame" /\ last.args = <<"none">> /\ last.ret
    /\ Len(spawned) = 2 /\ lines_cleared = 4 /\ last_drop > 0

\* C24: a frame of the typing game that reads q or Q while the input is empty
\* and the game is not over leaves the loop
C24_QuitWhenIdle ==
    [][/\ typing.current_input = <<>> /\ ~typing.game_over
       /\ last'.op = "typing" /\ last'.args[1] \in {"q", "Q"}
       => ~running']_vars

\* C25: n loads the next level exactly when the level it is pressed on has
\* been completed at some time before (and a next level exists)
C25_NextWhenUnlocked ==
    /\ [][/\ last'.op = "n"
          /\ sokoban.current_level \in sokoban.completed
          /\ sokoban.current_level < Len(LEVELS) - 1
          => sokoban'.current_level = sokoban.current_level + 1]_vars
    /\ [][/\ last'.op = "n"
          /\ sokoban.current_level \notin sokoban.completed
          => sokoban'.current_level = sokoban.current_level]_vars

\* player, grid and counts of two states of the game are the same
SameLevelState(a, b) ==
    /\ a.player_pos = b.player_pos /\ a.grid = b.grid
    /\ a.moves = b.moves /\ a.pushes = b.pushes

\* as many undos as the history has entries
RECURSIVE UndoAll(_)
UndoAll(s) == IF s.history = <<>> THEN s ELSE UndoAll(undo(s).g)

\* C26: in every state of a game, undo after a successful move gives back
\* player, grid, moves and pushes of before the move; the history holds one
\* entry for each move not undone, and undoing them all gives the level as it
\* was loaded; undo on an empty history returns False and changes nothing
C26_Undo ==
    /\ \A k \in DOMAIN Directions :
          LET m == move_player(sokoban, Directions[k][1], Directions[k][2])
          IN  m.ret => /\ undo(m.g).ret
                       /\ undo(m.g).g.history = sokoban.history
                       /\ SameLevelState(undo(m.g).g, sokoban)
    /\ Len(sokoban.history) = sokoban.moves
    /\ SameLevelState(UndoAll(sokoban), load_level(sokoban, sokoban.current_level).g)
    /\ sokoban.history = <<>> => undo(sokoban) = [g |-> sokoban, ret |-> FALSE]

\* two steps and a push were made and the three undos that followed emptied
\* the history
C26_Witness ==
    /\ last.op = "u" /\ last.ret /\ sokoban.history = <<>>
    /\ keys_todo = <<>> /\ free_steps = 0

\* the cells that hold a mine
Mined(m) == {p \in Cells(m.width, m.height) : m.mines[p]}

\* C27: no mine lies on the board before the first reveal; the first reveal
\* (of a hidden cell) places min(num_mines, cells left) mines, none of them on
\* the revealed cell or next to it, reveals the cell and does not lose the
\* game; the mines stay where they are until a new game
C27_FirstReveal ==
    /\ [](mines.first_click => Mined(mines) = {})
    /\ [][/\ last'.op = "reveal" /\ mines.first_click
          /\ mines.state[<<mines.cursor_x, mines.cursor_y>>] = HIDDEN
          => /\ ~mines'.first_click
             /\ Mined(mines') \cap Around(mines, mines.cursor_x, mines.cursor_y) = {}
             /\ Cardinality(Mined(mines')) =
                  min(mines.num_mines,
                      Cardinality(Cells(mines.width, mines.height)
                                  \ Around(mines, mines.cursor_x, mines.cursor_y)))
             /\ mines'.state[<<mines.cursor_x, mines.cursor_y>>] = REVEALED
             /\ ~(mines'.game_over /\ ~mines'.won)]_vars
    /\ [][~mines.first_click /\ last'.op # "r" => Mined(mines') = Mined(mines)]_vars

\* a first reveal has placed mines and the game goes on
C27_Witness ==
    /\ last.op = "reveal" /\ last.ret /\ ~mines.first_click
    /\ Mined(mines) # {} /\ ~mines.game_over
    /\ mines.state[<<last.args[1], last.args[2]>>] = REVEALED

\* the board is full and no two neighbours are equal: no move changes it
Stuck(g) == empty_cells(g) = {} /\ NoMerge(g)

\* C28: after a move the game is over exactly when the board is full and no
\* two neighbours in a row or a column are equal
C28_GameOver ==
    last.op \in {"up", "down", "left", "right"} =>
        (g2048.game_over <=> Stuck(g2048))

\* the tiles of a row packed to the left and merged in pairs from the left,
\* a tile merged at most once
RECURSIVE Pairs(_)
Pairs(seq) ==
    IF Len(seq) < 2 THEN seq
    ELSE IF seq[1] = seq[2] THEN <<2 * seq[1]>> \o Pairs(Tail(Tail(seq)))
    ELSE <<seq[1]>> \o Pairs(Tail(seq))

\* the sum of the tiles the merges make
RECURSIVE PairsSum(_)
PairsSum(seq) ==
    IF Len(seq) < 2 THEN 0
    ELSE IF seq[1] = seq[2] THEN 2 * seq[1] + PairsSum(Tail(Tail(seq)))
    ELSE PairsSum(Tail(seq))

\* C29: slide_row_left returns a row as long as the one given: the tiles that
\* are not zero in their order, merged in pairs from the left, then zeros; the
\* score grows by the sum of the merged tiles; [2,2,2,2] gives [4,4,0,0] and
\* [2,2,2,0] gives [4,2,0,0]
C29_SlideRow ==
    /\ slide_row_left(4, <<2, 2, 2, 2>>).row = <<4, 4, 0, 0>>
    /\ slide_row_left(4, <<2, 2, 2, 0>>).row = <<4, 2, 0, 0>>
    /\ last.op = "slide_row_left" =>
          LET row == last.args[1]
              tiles == Pairs(NonZero(row))
          IN  /\ Len(last.ret) = Len(row)
              /\ SubSeq(last.ret, 1, Len(tiles)) = tiles
              /\ \A i \in (Len(tiles) + 1)..Len(last.ret) : last.ret[i] = 0
              /\ g2048.score = last.args[2] + PairsSum(NonZero(row))

\* three equal tiles were slid: the first two merged, the third did not
C29_Witness ==
    /\ last.op = "slide_row_left" /\ last.args[1] = <<0, 4, 4, 4>>
    /\ last.ret = <<8, 4, 0, 0>> /\ g2048.score = last.args[2] + 8

----------------------------------------------------------------------------
\* the cells of the playfield the active piece covers d rows below where it is
Covered(d) ==
    {c \in (0..(BOARD_WIDTH - 1)) \X (0..(BOARD_HEIGHT - 1)) :
        \E p \in Range(current_piece) :
            c[1] = current_x + p[1] /\ c[2] = current_y + d + p[2]}

\* C31: while game_over is false the four cells of the active piece are in
\* the columns 0..9 and in rows below 20 and none of them is an occupied cell
\* of the playfield; a lock writes empty cells only
C31_ActivePieceValid ==
    /\ [](~game_over =>
            \A p \in Range(current_piece) :
                /\ current_x + p[1] \in 0..(BOARD_WIDTH - 1)
                /\ current_y + p[2] < BOARD_HEIGHT
                /\ \A c \in Covered(0) : board[c[2] + 1][c[1] + 1] = None)
    /\ [][Locks =>
            \A fall \in BOOLEAN :
                (fall <=> last'.op = "space") =>
                    \A c \in Covered(LockDepth(fall)) : board[c[2] + 1][c[1] + 1] = None
         ]_vars

\* a game in play after three locks or more: the last piece was written onto
\* a board that holds locked pieces
C31_Witness ==
    /\ ~game_over /\ last.op \in {"space", "auto"} /\ Len(spawned) >= 4
    /\ Occupied(board) >= 8

----------------------------------------------------------------------------
\* C32: after Tetris() and after every move, rotation, soft drop, hard drop
\* and gravity step no row of the playfield is fully occupied; a step that
\* completes rows leaves lines_cleared grown by their number
C32_NoFullRow ==
    /\ [](\A r \in 1..BOARD_HEIGHT : \E c \in 1..BOARD_WIDTH : board[r][c] = None)
    /\ [][Locks =>
            \A fall \in BOOLEAN :
                (fall <=> last'.op = "space") =>
                    lines_cleared' = lines_cleared + Completes(fall)
         ]_vars

\* a hard drop has locked the piece that completed a row, and what was above
\* the row stands on the floor
C32_Witness ==
    /\ last.op = "space" /\ lines_cleared > 0 /\ score >= 100
    /\ \E c \in 1..BOARD_WIDTH : board[BOARD_HEIGHT][c] # None

----------------------------------------------------------------------------
\* C33: in a game left to gravity the number of gravity steps the active
\* piece has before it locks is DropDistance + 1, which is at most 20: a step
\* takes one off it or locks the piece; every piece locks, and the game
\* reaches game over; the loop of hard_drop ends after DropDistance moves
C33_GravityEnds ==
    /\ [](~game_over => DropDistance + 1 <= BOARD_HEIGHT)
    /\ [][last'.op = "auto" =>
            IF DropDistance > 0
            THEN ~Locks /\ \A d \in {DropDistance - 1} : DropDistance' = d
            ELSE Locks
         ]_vars
    /\ \A n \in 1..BOARD_HEIGHT :
          (~game_over /\ Len(spawned) = n) ~> (Len(spawned) > n)
    /\ <>game_over
    /\ [](~game_over => DropLoop(Self, 0).ret = DropDistance)

\* gravity alone has stacked the pieces up to the spawn rows
C33_Witness ==
    /\ game_over /\ last.op = "auto" /\ ~last.ret
    /\ Len(spawned) >= 8 /\ lines_cleared = 0 /\ score = 0

----------------------------------------------------------------------------
\* C34: at every lock the piece that becomes active is of the kind next_type
\* held before the lock, and next_type becomes a fresh draw: the last element
\* of the bag, which leaves the bag, or of a newly shuffled bag of the seven
\* kinds when the bag was empty
C34_Preview ==
    [][Locks =>
          /\ current_type' = next_type
          /\ current_piece' = TETROMINOES[next_type][1]
          /\ IF bag # <<>>
             THEN /\ next_type' = bag[Len(bag)]
                  /\ bag' = SubSeq(bag, 1, Len(bag) - 1)
             ELSE /\ Len(bag') = 6
                  /\ OnceEach(bag' \o <<next_type'>>)
      ]_vars

\* a lock has taken the preview from a bag shuffled at a lock before it
C34_Witness ==
    /\ last.op \in {"space", "auto"} /\ ~game_over
    /\ Len(spawned) >= 9 /\ current_type = spawned[Len(spawned)]
    /\ Len(bag) = 5

----------------------------------------------------------------------------
\* C35: the frame that reads p in a paused game ends the pause, sets last_drop
\* to the time of that frame and takes no gravity step, however long ago the
\* last drop was; last_drop never goes back, and a frame takes a gravity step
\* only when the time since last_drop has reached the interval of the level:
\* so no gravity step comes sooner than one interval after the pause ended
C35_PauseTime ==
    [][last'.op = "frame" =>
          /\ (last'.args = <<"p">> /\ paused) =>
                /\ ~paused' /\ last_drop' = now
                /\ UNCHANGED <<board, current_x, current_y, spawned, score>>
          /\ (last'.args = <<"p">> /\ ~paused) =>
                paused' /\ last_drop' = last_drop
          /\ paused' /\ paused => UNCHANGED <<fields, last_drop>>
          /\ last_drop <= last_drop' /\ last_drop' <= now
          /\ (current_y' > current_y \/ Locks) /\ last'.args[1] \notin {"down", "space"}
                => /\ now - last_drop >= Interval(level)
                   /\ ~paused /\ ~paused'
      ]_vars

\* a pause that lasted longer than the interval has ended, and the frames
\* since have not taken a gravity step, the clock being short of one interval
\* after the end of the pause
C35_Witness ==
    /\ last.op = "frame" /\ ~paused /\ free_steps = 2
    /\ last_drop >= 2 * Interval(level) /\ now > last_drop
    /\ now - last_drop < Interval(level)
    /\ current_y = 0 /\ Len(spawned) = 1 /\ score = SinglesScore(lines_cleared)

----------------------------------------------------------------------------
\* the sum of the tiles of a board
TileSum(b) == SumOf([y \in 1..Len(b) |-> SumOf(b[y], Len(b[y]))], Len(b))

\* C36: a move that changes the board puts one tile, a 2 or a 4, in a cell that
\* sliding left empty and changes no other cell, so the sum of the tiles grows
\* by that tile (sliding keeps the sum); a move that does not change the board
\* leaves board, score, won and game_over as they were
C36_Move ==
    [][last'.op \in {"up", "down", "left", "right"} =>
          \A s \in {Slid(g2048, last'.op).board} :
              IF s # g2048.board
              THEN /\ TileSum(s) = TileSum(g2048.board)
                   /\ \E y \in 1..g2048.size, x \in 1..g2048.size, v \in {2, 4} :
                         /\ s[y][x] = 0
                         /\ g2048'.board = [s EXCEPT ![y][x] = v]
                         /\ TileSum(g2048'.board) = TileSum(g2048.board) + v
              ELSE /\ g2048'.board = g2048.board
                   /\ g2048'.score = g2048.score
                   /\ g2048'.won = g2048.won
                   /\ g2048'.game_over = g2048.game_over
      ]_vars

\* a move has changed the board of a game in which tiles have merged, and
\* the game goes on
C36_Witness ==
    /\ last.op \in {"up", "down", "left", "right"} /\ last.ret
    /\ g2048.score >= 16 /\ ~g2048.game_over
    /\ TileSum(g2048.board) >= 20

----------------------------------------------------------------------------
\* the cells of the grid that hold c
CellsOf(grid, c) ==
    {p \in (0..(Len(grid[1]) - 1)) \X (0..(Len(grid) - 1)) : CellAt(grid, p[1], p[2]) = c}

\* the cell is a wall or lies off the grid
Walled(grid, x, y) ==
    \/ y < 0 \/ y >= Len(grid) \/ x < 0 \/ x >= Len(grid[1])
    \/ grid[y + 1][x + 1] = WALL

\* a step of the player by d runs into a wall, or into a box that has a wall
\* or a box behind it
Blocked(s, d) ==
    LET x == s.player_pos[1] + d[1]
        y == s.player_pos[2] + d[2]
    IN  \/ Walled(s.grid, x, y)
        \/ /\ s.grid[y + 1][x + 1] = BOX
           /\ \/ Walled(s.grid, x + d[1], y + d[2])
              \/ s.grid[y + d[2] + 1][x + d[1] + 1] = BOX

\* C37: whatever moves, undos and restarts were made in a level, the grid
\* holds as many boxes as the level has, its walls are those of the level (no
\* box took the place of one), and the player stands on a cell that is neither
\* a wall nor a box; a move that is blocked returns False and leaves player,
\* grid, moves, pushes and history as they were
C37_Level ==
    /\ [](LET loaded == load_level(sokoban, sokoban.current_level).g
          IN  /\ Cardinality(CellsOf(sokoban.grid, BOX))
                    = Cardinality(CellsOf(loaded.grid, BOX))
              /\ CellsOf(sokoban.grid, WALL) = CellsOf(loaded.grid, WALL)
              /\ CellAt(sokoban.grid, sokoban.player_pos[1], sokoban.player_pos[2])
                    \notin {WALL, BOX}
              /\ \A k \in DOMAIN Directions :
                    Blocked(sokoban, Directions[k]) =>
                        move_player(sokoban, Directions[k][1], Directions[k][2])
                            = [g |-> sokoban, ret |-> FALSE])
    /\ [][last'.op \in DOMAIN Directions /\ Blocked(sokoban, Directions[last'.op]) =>
            /\ ~last'.ret
            /\ SameLevelState(sokoban', sokoban)
            /\ sokoban'.history = sokoban.history
         ]_vars

\* a push against a box that has a wall or a box behind it was refused, after
\* moves and pushes
C37_Witness ==
    /\ last.op \in DOMAIN Directions /\ ~last.ret
    /\ sokoban.pushes > 0
    /\ LET d == Directions[last.op]
       IN  CellAt(sokoban.grid, sokoban.player_pos[1] + d[1],
                  sokoban.player_pos[2] + d[2]) = BOX

----------------------------------------------------------------------------
\* the cells without a mine that are not revealed
SafeUnrevealed(m) ==
    {p \in Cells(m.width, m.height) : ~m.mines[p] /\ m.state[p] # REVEALED}

\* the game is won exactly when every cell without a mine is revealed
WonWhenCleared(m) == m.won <=> SafeUnrevealed(m) = {}

\* the flagged cells without a mine
SafeFlags(m) ==
    {p \in Cells(m.width, m.height) : ~m.mines[p] /\ m.state[p] = FLAGGED}

\* C38: the game is won exactly when every cell without a mine is REVEALED, in
\* every state, after toggle_flag on any cell and after reveal on any cell
\* that holds a mine; a reveal leaves the flagged cells without a mine
\* flagged; revealing a hidden mine ends the game with won false; once
\* game_over is true reveal and toggle_flag return the game as it is
C38_Win ==
    /\ [](/\ WonWhenCleared(mines)
          /\ mines.won => mines.game_over
          /\ mines.first_click => ~mines.game_over)
    /\ [](\A p \in Cells(mines.width, mines.height) :
             \A f \in {toggle_flag(mines, p[1], p[2], now)} :
                 /\ mines.game_over => f = mines
                 /\ WonWhenCleared(f)
                 /\ f.won => mines.won)
    /\ [](~mines.first_click =>
             \A p \in {c \in Cells(mines.width, mines.height) :
                           mines.game_over \/ mines.mines[c]} :
                 \A r \in {reveal(mines, p[1], p[2], now, {})} :
                     /\ mines.game_over => r = mines
                     /\ WonWhenCleared(r)
                     /\ SafeFlags(mines) \subseteq SafeFlags(r)
                     /\ (~mines.game_over /\ mines.mines[p] /\ mines.state[p] = HIDDEN)
                           => /\ r.game_over /\ ~r.won
                              /\ \A q \in Cells(mines.width, mines.height) :
                                    /\ reveal(r, q[1], q[2], now, {}) = r
                                    /\ toggle_flag(r, q[1], q[2], now) = r)
    /\ [][last'.op = "reveal" =>
            \A p \in Cells(mines.width, mines.height) :
                /\ (mines.state[p] = FLAGGED /\ ~mines'.mines[p])
                      => mines'.state[p] = FLAGGED
                /\ mines'.state[p] = FLAGGED => mines.state[p] = FLAGGED
         ]_vars

\* a reveal has cleared every cell without a mine but one that is flagged,
\* and the game is not won
C38_Witness ==
    /\ last.op = "reveal" /\ ~mines.game_over /\ ~mines.won
    /\ Mined(mines) # {}
    /\ SafeUnrevealed(mines) = SafeFlags(mines)
    /\ Cardinality(SafeFlags(mines)) = 1
    /\ Cardinality({p \in Cells(mines.width, mines.height) :
                       mines.state[p] = REVEALED}) > 1

====
